---- MODULE Spec2Model ----
(***************************************************************************)
(* A model of the include-cleaner library (Types.h, Hooks.cpp,             *)
(* Analysis.cpp, Locations.cpp, Headers.cpp, WalkAST.cpp) and of its three *)
(* drivers: the standalone tool, the clang-tidy check and clangd.          *)
(*                                                                         *)
(* Strings are sequences of character codes, file entries are positive     *)
(* integers (0 is the null FileEntry pointer), standard-library headers    *)
(* are their integer IDs.                                                  *)
(***************************************************************************)
EXTENDS Integers, Sequences, FiniteSets, TLC

VARIABLES
  stl,        \* which std::stable_sort the build links: "libstdcxx" or "libcxx"
  II,         \* rank: identifier of the referenced symbol (<<>> when it has none)
  Locs,       \* rank: the provider locations as resolved, [Value, Def]
  Headers,    \* rank: llvm::SmallVector<Hinted<Header>> handed to rank
  Result,     \* rank: the list returned by rank
  rpc,        \* rank: "collect" or "ranked"
  ha, hb, hc, \* order: three headers
  cmp,        \* order: results of comparing them (done = FALSE before)
  Active,     \* PPRecorder::Active
  All,        \* RecordedIncludes::All
  BySpelling, \* RecordedIncludes::BySpelling
  ByFile,     \* RecordedIncludes::ByFile
  MacroReferences, \* RecordedPP::MacroReferences
  DefinedMacros,   \* Cache::DefinedMacros
  Macros,     \* preprocessor: the current MacroInfo of every macro name
  HadDef,     \* preprocessor: names with IdentifierInfo::hadMacroDefinition()
  lastMD,     \* preprocessor: the MacroInfo of the last #define: params, tokens
  lastFC,     \* preprocessor: file of the most recent file-change event
  clock,      \* preprocessor: directives and expansions lexed so far
  ev,         \* the kind of the event delivered last
  matchRes,   \* the last RecordedIncludes::match query and what it returned
  applied,    \* the last call of a function of the library: fn, in, out
  TopLevelDecls,    \* RecordedAST::TopLevelDecls
  MainFileIncludes, \* clangd: IncludeStructure::MainFileIncludes
  SpelledTokens,    \* clangd: the spelled tokens of the main file that name a macro
  phase,      \* driver: "parse", then "done" (or "aborted") after the analysis
  driver,     \* driver: "tool", "tidy" or "clangd" once the analysis has run
  AnalyzeStdlib,    \* clangd: the AnalyzeStdlib flag of the run
  Calls,      \* driver: the invocations of the visitor, in order
  Used,       \* driver: ordinals of the includes marked used
  Unused,     \* driver: ordinals of the includes reported unused
  Diags,      \* tool: the diagnostics reported, in order
  Recover,    \* tool: the -recover option
  policy,     \* driver: the Policy the AnalysisContext was constructed with
  Lookups     \* the calls of AnalysisContext::macro made so far and their results

rankVars == <<stl, II, Locs, Headers, Result, rpc>>
ordVars == <<ha, hb, hc, cmp>>
incVars == <<All, BySpelling, ByFile>>
recVars == <<Active, incVars, MacroReferences, DefinedMacros>>
ppVars == <<Macros, HadDef, lastMD, lastFC, clock, ev>>
drvVars == <<phase, driver, AnalyzeStdlib, Calls, Used, Unused, Diags, Recover, policy>>

\* What the steps of one part of the model leave alone.
notRank ==
  <<ordVars, recVars, ppVars, matchRes, applied, TopLevelDecls, MainFileIncludes, SpelledTokens, drvVars,
    Lookups>>
notOrder ==
  <<rankVars, recVars, ppVars, matchRes, applied, TopLevelDecls, MainFileIncludes, SpelledTokens, drvVars,
    Lookups>>
notRec == <<rankVars, ordVars, drvVars, Lookups>>

-----------------------------------------------------------------------------
(* Bounds of the model. *)

NFiles == 2
NStd == 2
MaxCand == 3
MaxEvents == 3
MaxLookups == 5
MaxRedef == 4
NRedecls == 1

-----------------------------------------------------------------------------
(* Characters and strings. *)

ChLess == 60
ChGreater == 62
ChQuote == 34

Min(a, b) == IF a < b THEN a ELSE b

\* llvm::StringRef operator< : lexicographic on character codes.
StrLess(s, t) ==
  \/ \E k \in 1..Min(Len(s), Len(t)) :
        /\ \A j \in 1..(k - 1) : s[j] = t[j]
        /\ s[k] < t[k]
  \/ /\ Len(s) < Len(t)
     /\ \A j \in 1..Len(s) : s[j] = t[j]

\* llvm::toLower on one character.
ToLower(c) == IF c >= 65 /\ c <= 90 THEN c + 32 ELSE c

\* StringRef::equals_insensitive
EqualsInsensitive(s, t) ==
  /\ Len(s) = Len(t)
  /\ \A j \in 1..Len(s) : ToLower(s[j]) = ToLower(t[j])

\* StringRef::trim(Chars): drop leading and trailing characters in Chars.
RECURSIVE LTrim(_, _)
LTrim(s, chars) ==
  IF s # <<>> /\ Head(s) \in chars THEN LTrim(Tail(s), chars) ELSE s

RECURSIVE RTrim(_, _)
RTrim(s, chars) ==
  IF s # <<>> /\ s[Len(s)] \in chars THEN RTrim(SubSeq(s, 1, Len(s) - 1), chars)
  ELSE s

Trim(s, chars) == RTrim(LTrim(s, chars), chars)

-----------------------------------------------------------------------------
(* The files and names of the translation unit. *)

Files == 1..NFiles
StdIds == 1..NStd

\* FileEntry::getName(): file 1 is "a", file 2 is "B.h", file k is "<k>.h".
FileName(f) ==
  IF f = 1 THEN <<97>> ELSE IF f = 2 THEN <<66, 46, 104>> ELSE <<96 + f, 46, 104>>

\* The standard headers are <v>, <w>, ...: StdInner is the name between the
\* angle brackets, StdName is tooling::stdlib::Header::name().
StdInner(s) == <<117 + s>>
StdName(s) == <<ChLess>> \o StdInner(s) \o <<ChGreater>>

\* Spellings a Verbatim header or an #include may carry: "a", "b", "v", "w".
Spellings == {<<97>>, <<98>>, <<118>>, <<119>>}

Identifiers == {<<97>>, <<98>>}

-----------------------------------------------------------------------------
(* Types.h: Header. *)

Physical == 0
StandardLibrary == 1
Verbatim == 2
Builtin == 3
MainFile == 4

PhysicalHeader(f) == [K |-> Physical, v |-> f]
StdHeader(s) == [K |-> StandardLibrary, v |-> s]
VerbatimHeader(sp) == [K |-> Verbatim, v |-> sp]
BuiltinHeader == [K |-> Builtin, v |-> 0]
MainFileHeader == [K |-> MainFile, v |-> 0]

HeaderPool ==
  {PhysicalHeader(f) : f \in Files} \cup {StdHeader(s) : s \in StdIds}
    \cup {VerbatimHeader(sp) : sp \in {<<97>>, <<118>>}}
    \cup {BuiltinHeader, MainFileHeader}

\* friend bool operator==(const Header &L, const Header &R)
HeaderEq(L, R) ==
  IF L.K # R.K THEN FALSE
  ELSE IF L.K \in {Physical, StandardLibrary, Verbatim} THEN L.v = R.v
  ELSE TRUE

\* friend bool operator<(const Header &L, const Header &R)
HeaderLess(L, R) ==
  IF L.K # R.K THEN L.K < R.K
  ELSE IF L.K = Physical THEN L.v = R.v
  ELSE IF L.K = StandardLibrary THEN L.v < R.v
  ELSE IF L.K = Verbatim THEN StrLess(L.v, R.v)
  ELSE FALSE

-----------------------------------------------------------------------------
(* AnalysisInternal.h: Hint, a bitmask enum over uint16_t. *)

None == 0
Complete == 1
NameMatch == 1

RECURSIVE BitAnd(_, _)
BitAnd(a, b) ==
  IF a = 0 \/ b = 0 THEN 0
  ELSE (a % 2) * (b % 2) + 2 * BitAnd(a \div 2, b \div 2)

RECURSIVE BitOr(_, _)
BitOr(a, b) ==
  IF a = 0 THEN b
  ELSE IF b = 0 THEN a
  ELSE (IF a % 2 = 1 \/ b % 2 = 1 THEN 1 ELSE 0) + 2 * BitOr(a \div 2, b \div 2)

\* Hinted<T>
Hinted(v, h) == [Value |-> v, Hint |-> h]

\* static bool prefer(AnalysisContext &, Hint L, Hint R): tuple comparison of
\* (has NameMatch, has Complete), greater first.
prefer(L, R) ==
  LET ln == BitAnd(L, NameMatch) # 0
      lc == BitAnd(L, Complete) # 0
      rn == BitAnd(R, NameMatch) # 0
      rc == BitAnd(R, Complete) # 0
  IN  \/ ln /\ ~rn
      \/ ln = rn /\ lc /\ ~rc

\* template <typename T> void addHint(Hint H, T &Items)
addHint(H, Items) ==
  [i \in DOMAIN Items |-> Hinted(Items[i].Value, BitOr(Items[i].Hint, H))]

\* static void addNameMatchHint(const IdentifierInfo *II, SmallVector<Hinted<Header>> &H)
addNameMatchHint(id, H) ==
  IF id = <<>> THEN H
  ELSE [i \in DOMAIN H |->
          IF H[i].Value.K = Physical /\ EqualsInsensitive(id, FileName(H[i].Value.v))
          THEN Hinted(H[i].Value, BitOr(H[i].Hint, NameMatch))
          ELSE H[i]]

-----------------------------------------------------------------------------
(* Analysis.cpp: rank. *)

\* The two comparators rank hands to llvm::stable_sort.
Comp(mode, L, R) ==
  IF mode = "header" THEN HeaderLess(L.Value, R.Value)
  ELSE prefer(L.Hint, R.Hint)

\* An insertion that puts t ahead of the elements equivalent to it.
InsertOneBeforeEquals(lib, mode, s, t) ==
  LET stops == {k \in 1..Len(s) : Comp(mode, s[k], t)}
      p == IF stops = {} THEN 0 ELSE CHOOSE k \in stops : \A j \in stops : j <= k
  IN  SubSeq(s, 1, p) \o <<t>> \o SubSeq(s, p + 1, Len(s))

\* One insertion of std::stable_sort's insertion sort (all the ranges here are
\* below the threshold where the library switches to merging).  libc++ walks
\* t left while comp(t, previous); libstdc++ first tests comp(t, first) and
\* then moves t to the front, otherwise walks unguarded.
InsertOne(lib, mode, s, t) ==
  LET stops == {k \in 1..Len(s) : ~Comp(mode, t, s[k])}
      p == IF stops = {} THEN 0 ELSE CHOOSE k \in stops : \A j \in stops : j <= k
  IN  IF lib = "libstdcxx" /\ s # <<>> /\ Comp(mode, t, s[1])
      THEN <<t>> \o s
      ELSE SubSeq(s, 1, p) \o <<t>> \o SubSeq(s, p + 1, Len(s))

RECURSIVE InsertionSort(_, _, _, _)
InsertionSort(lib, mode, s, n) ==
  IF n = 0 THEN <<>>
  ELSE InsertOne(lib, mode, InsertionSort(lib, mode, s, n - 1), s[n])

\* llvm::stable_sort(Candidates, comparator)
StableSort(lib, mode, s) == InsertionSort(lib, mode, s, Len(s))

\* "Like unique(), but merge hints": the Write/Read loop of rank.
RECURSIVE UniqueMerge(_, _)
UniqueMerge(s, n) ==
  IF n = 0 THEN <<>>
  ELSE LET out == UniqueMerge(s, n - 1)
       IN  IF out # <<>> /\ HeaderEq(s[n].Value, out[Len(out)].Value)
           THEN [out EXCEPT ![Len(out)].Hint = BitOr(@, s[n].Hint)]
           ELSE Append(out, s[n])

\* rank, up to the hint sort: the candidates, deduplicated and ordered.
rankHinted(lib, Candidates) ==
  LET sorted == StableSort(lib, "header", Candidates)
      uniq == UniqueMerge(sorted, Len(sorted))
  IN  StableSort(lib, "hint", uniq)

\* rank emitting only the candidates that carry a hint, when there are any.
rankOnlyHinted(lib, Candidates) ==
  LET ranked == rankHinted(lib, Candidates)
      hinted == SelectSeq(ranked, LAMBDA c : c.Hint # None)
      kept == IF hinted = <<>> THEN ranked ELSE hinted
  IN  [i \in DOMAIN kept |-> kept[i].Value]

\* static SmallVector<Header> rank(AnalysisContext &, SmallVector<Hinted<Header>> &)
rank(lib, Candidates) ==
  LET ranked == rankHinted(lib, Candidates)
  IN  [i \in DOMAIN ranked |-> ranked[i].Value]

-----------------------------------------------------------------------------
(* Ranking one reference's candidates: the body of walkUsed's callback on   *)
(* candidates collected one provider location at a time.                    *)

StdLibs == {"libstdcxx", "libcxx"}

\* Hints a provider location can carry (declHint): a StandardLibrary location
\* and a Verbatim header carry none.
LocHints(h) ==
  IF h.K \in {Physical, Builtin, MainFile} THEN {None, Complete} ELSE {None}

InitRank ==
  /\ stl \in StdLibs
  /\ II \in Identifiers \cup {<<>>}
  /\ Locs = <<>>
  /\ Headers = <<>>
  /\ Result = <<>>
  /\ rpc = "collect"

IdleRank ==
  /\ stl = "libstdcxx"
  /\ II = <<>>
  /\ Locs = <<>>
  /\ Headers = <<>>
  /\ Result = <<>>
  /\ rpc = "idle"

\* walkUsed: auto LocHeaders = includableHeader(Ctx, *Loc);
\*           addHint(Loc.Hint, LocHeaders); Headers.append(LocHeaders);
AddCandidate(h, hint) ==
  /\ rpc = "collect"
  /\ Len(Headers) < MaxCand
  /\ Locs' = Append(Locs, [Value |-> h, Def |-> (hint = Complete)])
  /\ Headers' = Headers \o addHint(hint, <<Hinted(h, None)>>)
  /\ UNCHANGED <<stl, II, Result, rpc>>
  /\ UNCHANGED notRank

\* walkUsed: addHint(ND.Hint, Headers); addNameMatchHint(II, Headers);
\*           Callback(RefLoc, &ND.Value, rank(Ctx, Headers));
\* rank sorts and erases in Headers itself.
RankCandidates ==
  /\ rpc = "collect"
  /\ LET hinted == addNameMatchHint(II, addHint(None, Headers))
     IN  /\ Headers' = rankHinted(stl, hinted)
         /\ Result' = rank(stl, hinted)
  /\ rpc' = "ranked"
  /\ UNCHANGED <<stl, II, Locs>>
  /\ UNCHANGED notRank

NextRank ==
  \/ \E h \in HeaderPool : \E hint \in LocHints(h) : AddCandidate(h, hint)
  \/ RankCandidates

-----------------------------------------------------------------------------
(* Comparing headers: operator== and operator< on three headers.            *)

InitOrder ==
  /\ ha \in HeaderPool
  /\ hb \in HeaderPool
  /\ hc \in HeaderPool
  /\ cmp = [done |-> FALSE]

IdleOrder ==
  /\ ha = MainFileHeader
  /\ hb = MainFileHeader
  /\ hc = MainFileHeader
  /\ cmp = [done |-> FALSE]

Compare ==
  /\ ~cmp.done
  /\ cmp' = [done |-> TRUE,
             aa |-> HeaderLess(ha, ha),
             ab |-> HeaderLess(ha, hb),
             ba |-> HeaderLess(hb, ha),
             bc |-> HeaderLess(hb, hc),
             ac |-> HeaderLess(ha, hc),
             eq |-> HeaderEq(ha, hb)]
  /\ UNCHANGED <<ha, hb, hc>>
  /\ UNCHANGED notOrder

NextOrder == Compare

-----------------------------------------------------------------------------
(* Hooks.cpp: PPRecorder, the preprocessor callbacks.                       *)

\* A StringMap / DenseMap from keys to SmallVectors.
Lookup(map, key) == IF key \in DOMAIN map THEN map[key] ELSE <<>>
Put(map, key, val) ==
  [k \in DOMAIN map \cup {key} |-> IF k = key THEN val ELSE map[k]]

\* FileIDs: the main file, the predefines buffer, the header files.
MainFID == [t |-> "main", f |-> 0]
PredefFID == [t |-> "predef", f |-> 0]
HeaderFID(f) == [t |-> "file", f |-> f]
NoFID == [t |-> "none", f |-> 0]

\* A SourceLocation: file, offset of the directive, token within it.
Loc(fid, o, tok) == [F |-> fid, O |-> o, T |-> tok]
InvalidLoc == Loc(NoFID, 0, 0)

\* SourceManager::isWrittenInMainFile
isWrittenInMainFile(l) == l.F = MainFID

\* SourceManager::getSpellingLineNumber: one directive per line, 1-based.
getSpellingLineNumber(l) == l.O + 1

\* The file the preprocessor is lexing: the main file until a file change
\* says otherwise.
CurFID == IF lastFC = NoFID THEN MainFID ELSE lastFC

\* The i-th entry of a vector, counted from 0 as the code does.
At(vec, i) == vec[i + 1]

IncSpellings == {<<97>>, <<118>>}
MacroNames == Identifiers
BuiltinMacro == <<95>>

NoMacro == [Live |-> FALSE, Def |-> InvalidLoc, Builtin |-> FALSE]
MacroInfo(def, builtin) == [Live |-> TRUE, Def |-> def, Builtin |-> builtin]

\* PPRecorder::FileChanged
FileChanged(fid) ==
  /\ Active' = isWrittenInMainFile(Loc(fid, clock, 0))
  /\ lastFC' = fid
  /\ ev' = "FileChanged"
  /\ UNCHANGED <<incVars, MacroReferences, DefinedMacros, Macros, HadDef, lastMD, clock>>
  /\ UNCHANGED <<matchRes, applied, TopLevelDecls, MainFileIncludes, SpelledTokens, notRec>>

\* RecordInclude with Index read after the emplace_back.
RecordIncludeIndexAfter(Hash, SpelledFilename, File) ==
  LET Index == Len(All) + 1
      I == [Spelled |-> SpelledFilename,
            Resolved |-> File,
            Location |-> Hash,
            Line |-> getSpellingLineNumber(Hash)]
  IN  /\ All' = Append(All, I)
      /\ BySpelling' = Put(BySpelling, SpelledFilename,
                           Append(Lookup(BySpelling, SpelledFilename), Index))
      /\ ByFile' = Put(ByFile, File, Append(Lookup(ByFile, File), Index))

\* RecordInclude that keeps one entry per spelling.
RecordIncludeOncePerSpelling(Hash, SpelledFilename, File) ==
  LET Index == Len(All)
      I == [Spelled |-> SpelledFilename,
            Resolved |-> File,
            Location |-> Hash,
            Line |-> getSpellingLineNumber(Hash)]
  IN  IF SpelledFilename \in DOMAIN BySpelling THEN UNCHANGED incVars
      ELSE /\ All' = Append(All, I)
           /\ BySpelling' = Put(BySpelling, SpelledFilename, <<Index>>)
           /\ ByFile' = Put(ByFile, File, Append(Lookup(ByFile, File), Index))

\* The body of PPRecorder::InclusionDirective once Active has been tested.
RecordInclude(Hash, SpelledFilename, File) ==
  LET Index == Len(All)
      I == [Spelled |-> SpelledFilename,
            Resolved |-> File,
            Location |-> Hash,
            Line |-> getSpellingLineNumber(Hash)]
  IN  /\ All' = Append(All, I)
      /\ BySpelling' = Put(BySpelling, SpelledFilename,
                           Append(Lookup(BySpelling, SpelledFilename), Index))
      /\ ByFile' = Put(ByFile, File, Append(Lookup(ByFile, File), Index))

\* clangd's Inclusion of a directive: Written keeps the delimiters, HeaderID
\* is the ID of the resolved file (0 when there is none).
Inclusion(SpelledFilename, IsAngled, File, Keep, Hash) ==
  [Written |-> IF IsAngled THEN <<ChLess>> \o SpelledFilename \o <<ChGreater>>
               ELSE <<ChQuote>> \o SpelledFilename \o <<ChQuote>>,
   HeaderID |-> File,
   BehindPragmaKeep |-> Keep,
   HashLine |-> getSpellingLineNumber(Hash) - 1]

\* PPRecorder::InclusionDirective; clangd's own collector sees the same
\* directive and keeps it when it is written in the main file.
InclusionDirective(SpelledFilename, IsAngled, File, Keep) ==
  /\ lastFC # NoFID
  /\ clock' = clock + 1
  /\ ev' = "InclusionDirective"
  /\ IF ~Active THEN UNCHANGED incVars
     ELSE RecordInclude(Loc(CurFID, clock, 0), SpelledFilename, File)
  /\ MainFileIncludes' =
       IF CurFID = MainFID
       THEN Append(MainFileIncludes,
                   Inclusion(SpelledFilename, IsAngled, File, Keep, Loc(CurFID, clock, 0)))
       ELSE MainFileIncludes
  /\ UNCHANGED <<Active, MacroReferences, DefinedMacros, Macros, HadDef, lastMD, lastFC>>
  /\ UNCHANGED <<matchRes, applied, TopLevelDecls, SpelledTokens, notRec>>

\* Cache::macro: the DefinedMacros table after the lookup.
CacheAfter(cache, Name, Def) ==
  LET DMS == Lookup(cache, Name)
  IN  IF \E i \in DOMAIN DMS : DMS[i].Definition = Def THEN Put(cache, Name, DMS)
      ELSE Put(cache, Name, Append(DMS, [Name |-> Name, Definition |-> Def]))

\* llvm::SmallVector<DefinedMacro>: the elements held inline before the
\* vector moves to the heap.
InlineElements == 3

\* SmallVector::grow: the buffer that holds n elements, 0 for the inline
\* storage, then one heap buffer after the other (capacity 2 * old + 1).
RECURSIVE BufferFrom(_, _, _)
BufferFrom(n, cap, b) ==
  IF n <= cap THEN b ELSE BufferFrom(n, 2 * cap + 1, b + 1)
BufferOf(n) == BufferFrom(n, InlineElements, 0)

\* Cache::macro returning the first definition of the name, whatever Def is.
CacheSymbolFirst(cache, Name, Def) ==
  [N |-> Name, B |-> BufferOf(Len(Lookup(cache, Name)) + 1), I |-> 1]

\* Cache::macro: the symbol returned, a pointer to a slot of DefinedMacros[Name]:
\* the buffer B the vector lives in at the time, and the slot I.
CacheSymbol(cache, Name, Def) ==
  LET DMS == Lookup(cache, Name)
      hits == {i \in DOMAIN DMS : DMS[i].Definition = Def}
  IN  IF hits # {}
      THEN [N |-> Name, B |-> BufferOf(Len(DMS)),
            I |-> CHOOSE i \in hits : \A j \in hits : i <= j]
      ELSE [N |-> Name, B |-> BufferOf(Len(DMS) + 1), I |-> Len(DMS) + 1]

\* PPRecorder::recordMacroRef applied to the tokens toks = <<[II, Loc, MI]>> in
\* turn, starting from the references refs and the cache.
RECURSIVE recordMacroRefs(_, _, _)
recordMacroRefs(refs, cache, toks) ==
  IF toks = <<>> THEN [Refs |-> refs, Cache |-> cache]
  ELSE LET Tok == Head(toks)
       IN  IF Tok.MI.Builtin THEN recordMacroRefs(refs, cache, Tail(toks))
           ELSE recordMacroRefs(
                  Append(refs, [Location |-> Tok.Loc,
                                Target |-> CacheSymbol(cache, Tok.II, Tok.MI.Def)]),
                  CacheAfter(cache, Tok.II, Tok.MI.Def),
                  Tail(toks))

\* MacroExpands without the test of Active.
MacroExpandsAlways(Name) ==
  /\ lastFC # NoFID
  /\ Macros[Name].Live
  /\ clock' = clock + 1
  /\ ev' = "MacroExpands"
  /\ LET r == recordMacroRefs(MacroReferences, DefinedMacros,
                <<[II |-> Name, Loc |-> Loc(CurFID, clock, 0), MI |-> Macros[Name]]>>)
     IN  /\ MacroReferences' = r.Refs
         /\ DefinedMacros' = r.Cache
  /\ SpelledTokens' =
       IF CurFID = MainFID
       THEN Append(SpelledTokens,
                   [II |-> Name, Loc |-> Loc(CurFID, clock, 0), MI |-> Macros[Name]])
       ELSE SpelledTokens
  /\ UNCHANGED <<Active, incVars, Macros, HadDef, lastMD, lastFC>>
  /\ UNCHANGED <<matchRes, applied, TopLevelDecls, MainFileIncludes, notRec>>

\* PPRecorder::MacroExpands: the expansion of a macro that is defined.
MacroExpands(Name) ==
  /\ lastFC # NoFID
  /\ Macros[Name].Live
  /\ clock' = clock + 1
  /\ ev' = "MacroExpands"
  /\ IF ~Active THEN UNCHANGED <<MacroReferences, DefinedMacros>>
     ELSE LET r == recordMacroRefs(MacroReferences, DefinedMacros,
                     <<[II |-> Name, Loc |-> Loc(CurFID, clock, 0), MI |-> Macros[Name]]>>)
          IN  /\ MacroReferences' = r.Refs
              /\ DefinedMacros' = r.Cache
  /\ SpelledTokens' =
       IF CurFID = MainFID
       THEN Append(SpelledTokens,
                   [II |-> Name, Loc |-> Loc(CurFID, clock, 0), MI |-> Macros[Name]])
       ELSE SpelledTokens
  /\ UNCHANGED <<Active, incVars, Macros, HadDef, lastMD, lastFC>>
  /\ UNCHANGED <<matchRes, applied, TopLevelDecls, MainFileIncludes, notRec>>

\* bodyRefs without the test for the parameters of the definition.
RECURSIVE bodyRefsWithParams(_, _, _, _, _)
bodyRefsWithParams(tokens, params, macros, had, j) ==
  IF j > Len(tokens) THEN <<>>
  ELSE LET id == tokens[j]
           rest == bodyRefsWithParams(tokens, params, macros, had, j + 1)
       IN  IF id = <<>> \/ id \notin had THEN rest
           ELSE IF macros[id].Live
                THEN <<[II |-> id, Loc |-> Loc(CurFID, clock, j), MI |-> macros[id]]>> \o rest
                ELSE rest

\* The tokens of a macro body that MacroDefined records: identifiers that had
\* a macro definition, are no parameter, and name a macro defined now.
RECURSIVE bodyRefs(_, _, _, _, _)
bodyRefs(tokens, params, macros, had, j) ==
  IF j > Len(tokens) THEN <<>>
  ELSE LET id == tokens[j]
           rest == bodyRefs(tokens, params, macros, had, j + 1)
       IN  IF id = <<>> \/ id \notin had \/ id \in params THEN rest
           ELSE IF macros[id].Live
                THEN <<[II |-> id, Loc |-> Loc(CurFID, clock, j), MI |-> macros[id]]>> \o rest
                ELSE rest

\* PPRecorder::MacroDefined, after the preprocessor has installed the definition.
MacroDefined(Name, params, tokens) ==
  /\ lastFC # NoFID
  /\ clock' = clock + 1
  /\ ev' = "MacroDefined"
  /\ Macros' = [Macros EXCEPT ![Name] = MacroInfo(Loc(CurFID, clock, 0), FALSE)]
  /\ HadDef' = HadDef \cup {Name}
  /\ lastMD' = [Name |-> Name, params |-> params, tokens |-> tokens]
  /\ IF ~Active THEN UNCHANGED <<MacroReferences, DefinedMacros>>
     ELSE LET r == recordMacroRefs(MacroReferences, DefinedMacros,
                     bodyRefs(tokens, params, Macros', HadDef', 1))
          IN  /\ MacroReferences' = r.Refs
              /\ DefinedMacros' = r.Cache
  /\ SpelledTokens' =
       IF CurFID = MainFID
       THEN SpelledTokens \o bodyRefs(tokens, params, Macros', HadDef', 1)
       ELSE SpelledTokens
  /\ UNCHANGED <<Active, incVars, lastFC>>
  /\ UNCHANGED <<matchRes, applied, TopLevelDecls, MainFileIncludes, notRec>>

\* #undef: PPRecorder does not override MacroUndefined.
MacroUndefined(Name) ==
  /\ lastFC # NoFID
  /\ Macros[Name].Live
  /\ clock' = clock + 1
  /\ ev' = "MacroUndefined"
  /\ Macros' = [Macros EXCEPT ![Name] = NoMacro]
  /\ UNCHANGED <<recVars, HadDef, lastMD, lastFC>>
  /\ UNCHANGED <<matchRes, applied, TopLevelDecls, MainFileIncludes, SpelledTokens, notRec>>

\* RecordedPP::RecordedIncludes::match: llvm::sort and std::unique on the
\* pointers into All, here the ordinals.
RECURSIVE SortUnique(_)
SortUnique(S) ==
  IF S = {} THEN <<>>
  ELSE LET m == CHOOSE x \in S : \A y \in S : x <= y
       IN  <<m>> \o SortUnique(S \ {m})

Range(f) == {f[i] : i \in DOMAIN f}

\* match looking the standard header's name up as it is, brackets included.
matchUntrimmed(H) ==
  LET found ==
        IF H.K = Physical THEN Lookup(ByFile, H.v)
        ELSE IF H.K = StandardLibrary THEN Lookup(BySpelling, StdName(H.v))
        ELSE IF H.K = Verbatim THEN Lookup(BySpelling, H.v)
        ELSE <<>>
  IN  SortUnique(Range(found))

\* RecordedPP::RecordedIncludes::match
match(H) ==
  LET found ==
        IF H.K = Physical THEN Lookup(ByFile, H.v)
        ELSE IF H.K = StandardLibrary
             THEN Lookup(BySpelling, Trim(StdName(H.v), {ChLess, ChGreater}))
        ELSE IF H.K = Verbatim THEN Lookup(BySpelling, H.v)
        ELSE <<>>
  IN  SortUnique(Range(found))

\* A caller asks which includes match H.
MatchHeader(H) ==
  /\ matchRes' = [asked |-> TRUE, H |-> H, res |-> match(H)]
  /\ UNCHANGED applied
  /\ ev' = "match"
  /\ UNCHANGED <<recVars, Macros, HadDef, lastMD, lastFC, clock>>
  /\ UNCHANGED <<TopLevelDecls, MainFileIncludes, SpelledTokens, notRec>>

\* Headers a caller may ask about, a null-file Physical header included.
MatchPool == HeaderPool \cup {PhysicalHeader(0)}

InitRec ==
  /\ Active = FALSE
  /\ All = <<>>
  /\ BySpelling = <<>>
  /\ ByFile = <<>>
  /\ MacroReferences = <<>>
  /\ DefinedMacros = <<>>
  /\ Macros = [n \in MacroNames \cup {BuiltinMacro} |->
                 IF n = BuiltinMacro THEN MacroInfo(InvalidLoc, TRUE) ELSE NoMacro]
  /\ HadDef = {BuiltinMacro}
  /\ lastMD = [Name |-> <<>>, params |-> {}, tokens |-> <<>>]
  /\ lastFC = NoFID
  /\ clock = 0
  /\ ev = "none"
  /\ matchRes = [asked |-> FALSE]
  /\ applied = [fn |-> "none"]
  /\ TopLevelDecls = <<>>
  /\ MainFileIncludes = <<>>
  /\ SpelledTokens = <<>>
  /\ phase = "parse"
  /\ driver = "none"
  /\ AnalyzeStdlib = FALSE
  /\ Calls = <<>>
  /\ Used = {}
  /\ Unused = {}
  /\ Diags = <<>>
  /\ Recover = TRUE
  /\ policy = [Operators |-> FALSE, Members |-> FALSE, Construction |-> FALSE]
  /\ Lookups = <<>>

\* Macro bodies and parameter lists of the #define directives delivered.
Bodies ==
  {[params |-> {}, tokens |-> <<>>],
   [params |-> {}, tokens |-> <<<<97>>>>],
   [params |-> {}, tokens |-> <<<<98>>, <<>>>>],
   [params |-> {<<97>>}, tokens |-> <<<<97>>>>],
   [params |-> {}, tokens |-> <<BuiltinMacro>>]}

\* The spelling "v" is written <v>, the others in quotes.
AngledSpelling(sp) == sp = <<118>>

\* Recording, then queries on the frozen table.
NextInc ==
  \/ ~matchRes.asked /\ \E fid \in {MainFID, HeaderFID(1)} : FileChanged(fid)
  \/ ~matchRes.asked /\ clock < MaxEvents /\
       \E sp \in IncSpellings : \E f \in {0} \cup Files :
         InclusionDirective(sp, AngledSpelling(sp), f, FALSE)
  \/ \E H \in MatchPool : MatchHeader(H)

NextPP ==
  \/ \E fid \in {MainFID, PredefFID, HeaderFID(1)} : FileChanged(fid)
  \/ clock < MaxEvents /\ \E sp \in IncSpellings : \E f \in {0, 1} :
       InclusionDirective(sp, AngledSpelling(sp), f, FALSE)
  \/ clock < MaxEvents /\ \E n \in MacroNames \cup {BuiltinMacro} : MacroExpands(n)
  \/ clock < MaxEvents /\ \E n \in MacroNames : \E b \in Bodies :
       MacroDefined(n, b.params, b.tokens)
  \/ clock < MaxEvents /\ \E n \in MacroNames : MacroUndefined(n)

\* The ordinals of the recorded includes.
Ordinals == 0..(Len(All) - 1)

-----------------------------------------------------------------------------
\* The analysis: walker, locator, header resolver, walkUsed and the drivers.

\* Policy: what the walker reports.  The drivers pass Policy{}.
Policy(Operators, Members, Construction) ==
  [Operators |-> Operators, Members |-> Members, Construction |-> Construction]
DefaultPolicy == Policy(FALSE, FALSE, FALSE)

\* A redeclaration of a declaration: where it is, its friend object kind
\* (FOK_Declared: a friend declaration of an entity declared before;
\* FOK_Undeclared: a friend declaration that introduces the entity), its node
\* kind and whether it is a definition.
Redecl(loc, friend, kind, def) ==
  [Loc |-> loc, Friend |-> friend, Kind |-> kind, Definition |-> def]

\* The declarations the translation unit refers to (0 is the null NamedDecl*).
\*   1  class a: forward-declared in file 1, defined in file 2,
\*               befriended in file 1
\*   2  a symbol of the standard library, of the first standard header
\*   3  a variable of the main file
\*   4  a declaration without a valid location
\*   5  a function declared in the predefines buffer
\*   6  an overloaded operator function declared in file 2
DeclIds == {1, 2, 3, 4, 5, 6}
DeclName(d) == IF d = 1 THEN <<97>> ELSE <<98 + d>>

\* Further declarations, for the locator on its own: declaration
\* FirstGenerated + c has NRedecls redeclarations in file 1, one for each
\* digit of c \div 2, and is known to the recognizer of the standard library
\* when c is odd.  A digit says whether the redeclaration has a valid
\* location, its friend object kind, its node kind and whether it is a
\* definition.
FirstGenerated == Cardinality(DeclIds) + 1
FriendKinds == <<"FOK_None", "FOK_Declared", "FOK_Undeclared">>
NodeKinds == <<"Tag", "ClassTemplate", "FunctionTemplate", "Function">>
RedeclDigits == 2 * Len(FriendKinds) * Len(NodeKinds) * 2
RedeclOfDigit(c, pos) ==
  Redecl(IF c % 2 = 0 THEN InvalidLoc ELSE Loc(HeaderFID(1), pos, 0),
         FriendKinds[((c \div 2) % Len(FriendKinds)) + 1],
         NodeKinds[((c \div (2 * Len(FriendKinds))) % Len(NodeKinds)) + 1],
         (c \div (2 * Len(FriendKinds) * Len(NodeKinds))) % 2 = 1)
RECURSIVE GeneratedRedecls(_, _)
GeneratedRedecls(c, pos) ==
  IF pos > NRedecls THEN <<>>
  ELSE <<RedeclOfDigit(c % RedeclDigits, pos)>>
         \o GeneratedRedecls(c \div RedeclDigits, pos + 1)
GeneratedDecls ==
  FirstGenerated..(FirstGenerated + 2 * (RedeclDigits ^ NRedecls) - 1)

StdlibRecognizer(d) ==
  IF d = 2 THEN <<1>>
  ELSE IF d >= FirstGenerated /\ (d - FirstGenerated) % 2 = 1 THEN <<1>>
  ELSE <<>>
redecls(d) ==
  IF d = 1 THEN <<Redecl(Loc(HeaderFID(1), 0, 0), "FOK_None", "Tag", FALSE),
                  Redecl(Loc(HeaderFID(2), 0, 0), "FOK_None", "Tag", TRUE),
                  Redecl(Loc(HeaderFID(1), 1, 0), "FOK_Declared", "Tag", FALSE)>>
  ELSE IF d = 2 THEN <<Redecl(Loc(HeaderFID(2), 1, 0), "FOK_None", "Function", FALSE)>>
  ELSE IF d = 3 THEN <<Redecl(Loc(MainFID, 0, 0), "FOK_None", "Var", TRUE)>>
  ELSE IF d = 4 THEN <<Redecl(InvalidLoc, "FOK_None", "Function", FALSE)>>
  ELSE IF d = 5 THEN <<Redecl(Loc(PredefFID, 0, 0), "FOK_None", "Function", FALSE)>>
  ELSE IF d = 6 THEN <<Redecl(Loc(HeaderFID(2), 2, 0), "FOK_None", "Function", FALSE)>>
  ELSE GeneratedRedecls((d - FirstGenerated) \div 2, 1)

\* Location: a source location or a symbol of the standard library.
PhysicalLocation(loc) == [K |-> Physical, Src |-> loc, Sym |-> 0]
StdLocation(sym) == [K |-> StandardLibrary, Src |-> InvalidLoc, Sym |-> sym]

declHint(RD) ==
  IF RD.Kind \in {"Tag", "ClassTemplate", "FunctionTemplate"} /\ RD.Definition
  THEN BitOr(None, Complete)
  ELSE None

\* locateDecl's loop with the friend declarations kept.
RECURSIVE locateRedeclsWithFriends(_, _)
locateRedeclsWithFriends(RDs, k) ==
  IF k > Len(RDs) THEN <<>>
  ELSE LET RD == RDs[k]
           rest == locateRedeclsWithFriends(RDs, k + 1)
       IN  IF RD.Loc # InvalidLoc
           THEN <<Hinted(PhysicalLocation(RD.Loc), declHint(RD))>> \o rest
           ELSE rest

RECURSIVE locateRedecls(_, _)
locateRedecls(RDs, k) ==
  IF k > Len(RDs) THEN <<>>
  ELSE LET RD == RDs[k]
           rest == locateRedecls(RDs, k + 1)
       IN  IF RD.Friend = "FOK_Declared" THEN rest
           ELSE IF RD.Loc # InvalidLoc
                THEN <<Hinted(PhysicalLocation(RD.Loc), declHint(RD))>> \o rest
                ELSE rest

locateDecl(ND) ==
  IF StdlibRecognizer(ND) # <<>>
  THEN <<Hinted(StdLocation(StdlibRecognizer(ND)[1]), None)>>
  ELSE locateRedecls(redecls(ND), 1)

\* The macro symbol a reference points at: a slot of the cache.
MacroOf(cache, Target) == cache[Target.N][Target.I]

locateMacro(M) == Hinted(PhysicalLocation(M.Definition), None)

\* SourceManager::getFileEntryForID: 0 for a buffer without a file.
getFileEntryForID(FID) == IF FID.t = "file" THEN FID.f ELSE 0

\* SourceManager::getExpansionLoc: a location in the FileID of an expansion
\* goes to where the macro was expanded, the main file (f = 0) or header f.
getExpansionLoc(l) ==
  IF l.F.t = "expansion"
  THEN Loc(IF l.F.f = 0 THEN MainFID ELSE HeaderFID(l.F.f), l.O, l.T)
  ELSE l

\* includableHeader on the location as it is, not on its expansion location.
includableHeaderRaw(L) ==
  IF L.K = Physical
  THEN LET FID == L.Src.F
       IN  IF FID = MainFID THEN <<Hinted(MainFileHeader, None)>>
           ELSE IF FID = PredefFID THEN <<Hinted(BuiltinHeader, None)>>
           ELSE IF getFileEntryForID(FID) # 0
                THEN <<Hinted(PhysicalHeader(getFileEntryForID(FID)), None)>>
                ELSE <<>>
  ELSE <<Hinted(StdHeader(L.Sym), None)>>

includableHeader(L) ==
  IF L.K = Physical
  THEN LET FID == getExpansionLoc(L.Src).F
       IN  IF FID = MainFID THEN <<Hinted(MainFileHeader, None)>>
           ELSE IF FID = PredefFID THEN <<Hinted(BuiltinHeader, None)>>
           ELSE IF getFileEntryForID(FID) # 0
                THEN <<Hinted(PhysicalHeader(getFileEntryForID(FID)), None)>>
                ELSE <<>>
  ELSE <<Hinted(StdHeader(L.Sym), None)>>

\* An expansion a location lies in: a macro-argument expansion ("arg") or the
\* expansion of a macro body ("body"); Outer says that no other macro
\* invocation encloses this one in the text of the file.
Exp(kind, outer) == [K |-> kind, Outer |-> outer]
ExpArg == <<Exp("arg", TRUE)>>
ExpBody == <<Exp("body", TRUE)>>

\* The FileID of an SLocEntry that is an expansion.
ExpansionFID == [t |-> "expansion", f |-> 0]

\* An AST node below a root.  Macro is the chain of expansions of the node's
\* location: the SLocEntry of the raw location first, then the one of its
\* spelling location, and so on; empty for a location written in the file.
Node(kind, d, op, macro) == [Kind |-> kind, Decl |-> d, Op |-> op, Macro |-> macro]

\* The location of the j-th node of Root once spelled through a prefix of its
\* chain: a file location when nothing of the chain is left.
SpelledLoc(Root, j, chain) ==
  IF chain = <<>> THEN Loc(Root.Loc.F, Root.Loc.O, j)
  ELSE Loc(ExpansionFID, Root.Loc.O, j)

\* ASTWalker::report with an if in place of the while.
reportAtOneStep(Root, j, chain, ND) ==
  IF chain # <<>> /\ Head(chain).K # "arg" THEN <<>>
  ELSE IF ND # 0
       THEN <<[Loc |-> SpelledLoc(Root, j, IF chain = <<>> THEN <<>> ELSE Tail(chain)),
               ND |-> Hinted(ND, None)]>>
       ELSE <<>>

\* ASTWalker::report: the loop over the expansions of the location.
RECURSIVE reportAt(_, _, _, _)
reportAt(Root, j, chain, ND) ==
  IF chain # <<>>
  THEN IF Head(chain).K # "arg" THEN <<>>
       ELSE reportAt(Root, j, Tail(chain), ND)
  ELSE IF ND # 0
       THEN <<[Loc |-> SpelledLoc(Root, j, chain), ND |-> Hinted(ND, None)]>>
       ELSE <<>>

\* ASTWalker::report at the location of the j-th node of the root written at
\* Root.Loc; j = 0 is the default-constructed SourceLocation.
report(Root, j, ND) ==
  IF j = 0
  THEN IF ND # 0 THEN <<[Loc |-> InvalidLoc, ND |-> Hinted(ND, None)]>> ELSE <<>>
  ELSE reportAt(Root, j, Root.Nodes[j].Macro, ND)

\* The Visit* methods with VisitDeclRefExpr reporting operators whatever the
\* policy says.
VisitNodeAnyOperator(P, Root, j) ==
  LET E == Root.Nodes[j]
  IN  IF E.Kind = "MemberExpr"
      THEN IF P.Members THEN report(Root, j, E.Decl) ELSE <<>>
      ELSE report(Root, j, E.Decl)

\* The Visit* method of the j-th node, for the nodes that are no types.
VisitNode(P, Root, j) ==
  LET E == Root.Nodes[j]
  IN  IF E.Kind = "DeclRefExpr"
      THEN IF ~P.Operators /\ E.Op THEN <<>> ELSE report(Root, j, E.Decl)
      ELSE IF E.Kind = "MemberExpr"
           THEN IF P.Members THEN report(Root, j, E.Decl) ELSE <<>>
      ELSE report(Root, j, E.Decl)

\* ASTWalker::VisitTagType: LocationOfType is the node whose location was
\* stashed, 0 for none.
VisitTagType(Root, LocationOfType, TT) == report(Root, LocationOfType, TT)

\* ASTWalker::TraverseTypeLoc on the j-th node: the references and
\* LocationOfType once the SaveAndRestore has gone out of scope.
TraverseTypeLoc(Root, j, LocationOfType) ==
  [Refs |-> VisitTagType(Root, j, Root.Nodes[j].Decl),
   LocationOfType |-> LocationOfType]

\* ASTWalker::VisitCXXConstructExpr
VisitCXXConstructExpr(P, Root, j, LocationOfType) ==
  IF ~P.Construction THEN [Refs |-> <<>>, LocationOfType |-> LocationOfType]
  ELSE [Refs |-> VisitTagType(Root, j, Root.Nodes[j].Decl),
        LocationOfType |-> LocationOfType]

\* The traversal of the j-th node.  A CXXTemporaryObjectExpr is a
\* CXXConstructExpr with the type written: it is visited as one, and then its
\* TypeLoc is traversed.
TraverseNode(P, Root, j, LocationOfType) ==
  LET E == Root.Nodes[j]
  IN  IF E.Kind = "TagType" THEN TraverseTypeLoc(Root, j, LocationOfType)
      ELSE IF E.Kind = "CXXConstructExpr"
           THEN VisitCXXConstructExpr(P, Root, j, LocationOfType)
      ELSE IF E.Kind = "CXXTemporaryObjectExpr"
           THEN LET v == VisitCXXConstructExpr(P, Root, j, LocationOfType)
                    t == TraverseTypeLoc(Root, j, v.LocationOfType)
                IN  [Refs |-> v.Refs \o t.Refs, LocationOfType |-> t.LocationOfType]
      ELSE [Refs |-> VisitNode(P, Root, j), LocationOfType |-> LocationOfType]

RECURSIVE TraverseDecl(_, _, _, _)
TraverseDecl(P, Root, j, LocationOfType) ==
  IF j > Len(Root.Nodes) THEN <<>>
  ELSE LET n == TraverseNode(P, Root, j, LocationOfType)
       IN  n.Refs \o TraverseDecl(P, Root, j + 1, n.LocationOfType)

\* walkAST: the (location, declaration) pairs reported below Root, in
\* traversal order.
walkAST(P, Root) == TraverseDecl(P, Root, 1, 0)

DeclSymbol(d) == [Kind |-> "Declaration", D |-> d, N |-> <<>>, B |-> 0, I |-> 0]
MacroSymbol(Target) ==
  [Kind |-> "Macro", D |-> 0, N |-> Target.N, B |-> Target.B, I |-> Target.I]

\* An invocation of the visitor.
Call(loc, sym, headers) == [Loc |-> loc, Sym |-> sym, Headers |-> headers]

RECURSIVE LocHeaders(_, _)
LocHeaders(Locations, k) ==
  IF k > Len(Locations) THEN <<>>
  ELSE addHint(Locations[k].Hint, includableHeader(Locations[k].Value))
         \o LocHeaders(Locations, k + 1)

\* walkUsed: the callback given to walkAST.
DeclCallback(lib, RefLoc, ND) ==
  LET Locations == locateDecl(ND.Value)
      hdrs == addNameMatchHint(DeclName(ND.Value),
                               addHint(ND.Hint, LocHeaders(Locations, 1)))
  IN  Call(RefLoc, DeclSymbol(ND.Value), rank(lib, hdrs))

RECURSIVE DeclCalls(_, _, _)
DeclCalls(lib, refs, k) ==
  IF k > Len(refs) THEN <<>>
  ELSE <<DeclCallback(lib, refs[k].Loc, refs[k].ND)>> \o DeclCalls(lib, refs, k + 1)

RECURSIVE RootCalls(_, _, _, _)
RootCalls(lib, P, ASTRoots, k) ==
  IF k > Len(ASTRoots) THEN <<>>
  ELSE DeclCalls(lib, walkAST(P, ASTRoots[k]), 1) \o RootCalls(lib, P, ASTRoots, k + 1)

\* walkUsed: the body of the loop over MacroRefs.
MacroCallback(lib, cache, MacroRef) ==
  LET M == MacroOf(cache, MacroRef.Target)
      L == locateMacro(M)
      hdrs == addNameMatchHint(M.Name, addHint(L.Hint, includableHeader(L.Value)))
  IN  Call(MacroRef.Location, MacroSymbol(MacroRef.Target), rank(lib, hdrs))

RECURSIVE MacroCalls(_, _, _, _)
MacroCalls(lib, cache, MacroRefs, k) ==
  IF k > Len(MacroRefs) THEN <<>>
  ELSE <<MacroCallback(lib, cache, MacroRefs[k])>>
         \o MacroCalls(lib, cache, MacroRefs, k + 1)

\* walkUsed with the macro references ahead of the declarations.
walkUsedMacrosFirst(lib, P, ASTRoots, MacroRefs, cache) ==
  MacroCalls(lib, cache, MacroRefs, 1) \o RootCalls(lib, P, ASTRoots, 1)

\* walkUsed: the invocations of the visitor, in order.
walkUsed(lib, P, ASTRoots, MacroRefs, cache) ==
  RootCalls(lib, P, ASTRoots, 1) \o MacroCalls(lib, cache, MacroRefs, 1)

\* Header::name
HeaderName(H) ==
  IF H.K = Physical THEN FileName(H.v)
  ELSE IF H.K = StandardLibrary THEN StdName(H.v)
  ELSE IF H.K = Verbatim THEN H.v
  ELSE IF H.K = Builtin THEN <<60, 98, 117, 105, 108, 116, 45, 105, 110, 62>>
  ELSE <<60, 109, 97, 105, 110, 45, 102, 105, 108, 101, 62>>

\* CustomDiagnosticIDs with every diagnostic but the note made an error.
DiagLevelErrors(id) == IF id = "NoteHeader" THEN "Note" ELSE "Error"

\* The standalone tool.  CustomDiagnosticIDs: the level of a diagnostic, with
\* -show-satisfied given.
DiagLevel(id) ==
  IF id \in {"Satisfied", "Used"} THEN "Remark"
  ELSE IF id \in {"Unsatisfied", "Unused"} THEN "Error"
  ELSE IF id = "NoHeader" THEN "Warning"
  ELSE "Note"

Report(loc, id, sym, arg) ==
  [Loc |-> loc, ID |-> id, Level |-> DiagLevel(id), Sym |-> sym, Arg |-> arg]
NoSym == [Kind |-> "none", D |-> 0, N |-> <<>>, B |-> 0, I |-> 0]

RECURSIVE MatchesOf(_, _)
MatchesOf(Hs, k) ==
  IF k > Len(Hs) THEN {} ELSE Range(match(Hs[k])) \cup MatchesOf(Hs, k + 1)

\* diagnoseReference: what the first report of "satisfied" names, if any.
RECURSIVE FirstSatisfied(_, _)
FirstSatisfied(Hs, k) ==
  IF k > Len(Hs) THEN <<>>
  ELSE IF Hs[k].K \in {Builtin, MainFile} THEN <<HeaderName(Hs[k])>>
  ELSE IF match(Hs[k]) # <<>> THEN <<At(All, match(Hs[k])[1]).Spelled>>
  ELSE FirstSatisfied(Hs, k + 1)

RECURSIVE FirstRecovered(_, _, _)
FirstRecovered(Hs, Recovered, k) ==
  IF k > Len(Hs) THEN <<>>
  ELSE IF Hs[k] \in Recovered THEN <<HeaderName(Hs[k])>>
  ELSE FirstRecovered(Hs, Recovered, k + 1)

\* Used.try_emplace(I, Sym) for every I of the set Is.
TryEmplace(U, Is, Sym) ==
  [i \in DOMAIN U \cup Is |-> IF i \in DOMAIN U THEN U[i] ELSE Sym]

\* diagnoseReference with the loop over the headers left at the first include
\* marked.
diagnoseReferenceFirstOnly(st, C) ==
  LET sat == FirstSatisfied(C.Headers, 1)
      ms == MatchesOf(C.Headers, 1)
      first == IF ms = {} THEN {} ELSE {CHOOSE i \in ms : \A j \in ms : i <= j}
  IN  [st EXCEPT !.Used = TryEmplace(st.Used, first, C.Sym),
                 !.Diags = IF sat # <<>>
                           THEN Append(st.Diags, Report(C.Loc, "Satisfied", C.Sym, sat[1]))
                           ELSE st.Diags]

\* diagnoseReference without the look at the headers recovered so far.
diagnoseReferenceNoRecovery(st, C) ==
  LET sat == FirstSatisfied(C.Headers, 1)
      used == TryEmplace(st.Used, MatchesOf(C.Headers, 1), C.Sym)
  IN  IF sat # <<>>
      THEN [st EXCEPT !.Used = used,
                      !.Diags = Append(st.Diags, Report(C.Loc, "Satisfied", C.Sym, sat[1]))]
      ELSE [Recovered |-> st.Recovered \cup Range(C.Headers),
            Used |-> used,
            Diags |-> Append(st.Diags,
                             Report(C.Loc,
                                    IF C.Headers = <<>> THEN "NoHeader" ELSE "Unsatisfied",
                                    C.Sym, <<>>))
                      \o [k \in 1..Len(C.Headers) |->
                            Report(InvalidLoc, "NoteHeader", NoSym, HeaderName(C.Headers[k]))]]

\* Action::diagnoseReference on the state st = [Recovered, Used, Diags].
diagnoseReference(st, C) ==
  LET sat == FirstSatisfied(C.Headers, 1)
      rec == FirstRecovered(C.Headers, st.Recovered, 1)
      used == TryEmplace(st.Used, MatchesOf(C.Headers, 1), C.Sym)
  IN  IF sat # <<>>
      THEN [st EXCEPT !.Used = used,
                      !.Diags = Append(st.Diags, Report(C.Loc, "Satisfied", C.Sym, sat[1]))]
      ELSE IF rec # <<>>
      THEN [st EXCEPT !.Used = used,
                      !.Diags = Append(st.Diags, Report(C.Loc, "Satisfied", C.Sym, rec[1]))]
      ELSE [Recovered |-> st.Recovered \cup Range(C.Headers),
            Used |-> used,
            Diags |-> Append(st.Diags,
                             Report(C.Loc,
                                    IF C.Headers = <<>> THEN "NoHeader" ELSE "Unsatisfied",
                                    C.Sym, <<>>))
                      \o [k \in 1..Len(C.Headers) |->
                            Report(InvalidLoc, "NoteHeader", NoSym, HeaderName(C.Headers[k]))]]

RECURSIVE diagnoseReferences(_, _, _)
diagnoseReferences(st, calls, k) ==
  IF k > Len(calls) THEN st
  ELSE diagnoseReferences(diagnoseReference(st, calls[k]), calls, k + 1)

\* diagnoseIncludes reporting every include as unused.
diagnoseIncludesAllUnused(Includes, U) ==
  [k \in 1..Len(Includes) |-> Report(Includes[k].Location, "Unused", NoSym, <<>>)]

\* Action::diagnoseIncludes
diagnoseIncludes(Includes, U) ==
  [k \in 1..Len(Includes) |->
     IF (k - 1) \notin DOMAIN U
     THEN Report(Includes[k].Location, "Unused", NoSym, <<>>)
     ELSE Report(Includes[k].Location, "Used", U[k - 1], <<>>)]

\* The ordinals of the includes that ds reports unused.
ReportedUnused(Includes, ds) ==
  {i \in 0..(Len(Includes) - 1) :
     \E k \in DOMAIN ds : ds[k].ID = "Unused" /\ ds[k].Loc = At(Includes, i).Location}

\* Action::EndSourceFile of the standalone tool, from the visitor invocations.
ToolEndSourceFile(calls) ==
  LET st == diagnoseReferences([Recovered |-> {}, Used |-> <<>>, Diags |-> <<>>], calls, 1)
      ds == diagnoseIncludes(All, st.Used)
  IN  [Used |-> DOMAIN st.Used, Unused |-> ReportedUnused(All, ds),
       Diags |-> st.Diags \o ds, Aborted |-> FALSE]

\* The visitor taking a header for seen when one of its kind was seen.
RECURSIVE TidyHeadersSeenByKind(_, _, _)
TidyHeadersSeenByKind(st, Hs, k) ==
  IF k > Len(Hs) THEN st
  ELSE IF \E h \in st.Seen : h.K = Hs[k].K THEN TidyHeadersSeenByKind(st, Hs, k + 1)
  ELSE TidyHeadersSeenByKind([Seen |-> st.Seen \cup {Hs[k]},
                              Used |-> st.Used \cup Range(match(Hs[k]))], Hs, k + 1)

\* The clang-tidy check: the visitor, on the state st = [Seen, Used].
RECURSIVE TidyHeaders(_, _, _)
TidyHeaders(st, Hs, k) ==
  IF k > Len(Hs) THEN st
  ELSE IF Hs[k] \in st.Seen THEN TidyHeaders(st, Hs, k + 1)
  ELSE TidyHeaders([Seen |-> st.Seen \cup {Hs[k]},
                    Used |-> st.Used \cup Range(match(Hs[k]))], Hs, k + 1)

RECURSIVE TidyCalls(_, _, _)
TidyCalls(st, calls, k) ==
  IF k > Len(calls) THEN st
  ELSE TidyCalls(TidyHeaders(st, calls[k].Headers, 1), calls, k + 1)

\* UnusedIncludesCheck::onEndOfTranslationUnit
onEndOfTranslationUnit(calls) ==
  LET st == TidyCalls([Seen |-> {}, Used |-> {}], calls, 1)
  IN  [Used |-> st.Used, Unused |-> Ordinals \ st.Used,
       Diags |-> <<>>, Aborted |-> FALSE]

\* clangd.  IncludeStructure::getID: the ID of a file is the file.
getID(FE) == FE

\* clangd's match(H, I, S)
clangdMatch(H, I) ==
  IF H.K = Physical THEN getID(H.v) # 0 /\ getID(H.v) = I.HeaderID
  ELSE IF H.K = StandardLibrary THEN I.Written = StdName(H.v)
  ELSE IF H.K = Verbatim
       THEN Trim(I.Written, {ChQuote, ChLess, ChGreater}) = H.v
  ELSE FALSE

\* tooling::stdlib::Header::named
named(Written) == \E s \in StdIds : Written = StdName(s)

\* HeaderSearch::isFileMultipleIncludeGuarded: file 1 has an include guard.
isFileMultipleIncludeGuarded(FE) == FE = 1

\* mayConsiderUnused runs into assert(Inc.HeaderID) and the dereference of the
\* empty optional after it.
HitsAssert(Inc) ==
  /\ ~Inc.BehindPragmaKeep
  /\ Inc.Written[1] # ChLess
  /\ Inc.HeaderID = 0

\* mayConsiderUnused; ub is what the build makes of the empty optional:
\* "abort", or the answer "true" or "false" computed from a garbage ID.
mayConsiderUnused(Inc, az, ub) ==
  IF Inc.BehindPragmaKeep THEN FALSE
  ELSE IF Inc.Written[1] = ChLess THEN az /\ named(Inc.Written)
  ELSE IF Inc.HeaderID = 0 THEN ub = "true"
  ELSE isFileMultipleIncludeGuarded(Inc.HeaderID)

\* findReferencedMacros: the macro references and the cache they are interned
\* in, from the spelled tokens of the main file.
RECURSIVE findReferencedMacros(_, _, _)
findReferencedMacros(refs, cache, toks) ==
  IF toks = <<>> THEN [Refs |-> refs, Cache |-> cache]
  ELSE LET Tok == Head(toks)
       IN  IF ~Tok.MI.Live \/ Tok.MI.Def = InvalidLoc
           THEN findReferencedMacros(refs, cache, Tail(toks))
           ELSE findReferencedMacros(
                  Append(refs, [Location |-> Tok.Loc,
                                Target |-> CacheSymbol(cache, Tok.II, Tok.MI.Def)]),
                  CacheAfter(cache, Tok.II, Tok.MI.Def),
                  Tail(toks))

ClangdOrdinals == 0..(Len(MainFileIncludes) - 1)

\* computeUnusedIncludes: the visitor, on the set used of includes marked so
\* far; the loop over the headers for the include of ordinal i.
RECURSIVE ClangdHeaders(_, _, _, _)
ClangdHeaders(used, Hs, i, k) ==
  IF k > Len(Hs) THEN used
  ELSE IF clangdMatch(Hs[k], At(MainFileIncludes, i))
       THEN ClangdHeaders(used \cup {i}, Hs, i, k + 1)
       ELSE ClangdHeaders(used, Hs, i, k + 1)

RECURSIVE ClangdIncludes(_, _, _)
ClangdIncludes(used, Hs, i) ==
  IF i >= Len(MainFileIncludes) THEN used
  ELSE ClangdIncludes(ClangdHeaders(used, Hs, i, 1), Hs, i + 1)

RECURSIVE ClangdUsed(_, _, _)
ClangdUsed(used, calls, c) ==
  IF c > Len(calls) THEN used
  ELSE ClangdUsed(ClangdIncludes(used, calls[c].Headers, 0), calls, c + 1)

\* computeUnusedIncludes
computeUnusedIncludes(calls, az, ub) ==
  LET used == ClangdUsed({}, calls, 1)
      rest == ClangdOrdinals \ used
  IN  [Used |-> used,
       Unused |-> {i \in rest : mayConsiderUnused(At(MainFileIncludes, i), az, ub)},
       Diags |-> <<>>,
       Aborted |-> ub = "abort" /\ \E i \in rest : HitsAssert(At(MainFileIncludes, i))]

\* ASTRecorder::HandleTopLevelDecl for a group of one declaration.
HandleTopLevelDecl(D) ==
  /\ phase = "parse"
  /\ lastFC # NoFID
  /\ clock' = clock + 1
  /\ ev' = "HandleTopLevelDecl"
  /\ TopLevelDecls' =
       IF ~isWrittenInMainFile(Loc(CurFID, clock, 0)) THEN TopLevelDecls
       ELSE IF D.Kind \in {"Function", "CXXRecord", "Var"} /\ D.ImplicitInstantiation
            THEN TopLevelDecls
       ELSE IF D.Kind = "ObjCMethod" THEN TopLevelDecls
       ELSE Append(TopLevelDecls, [Loc |-> Loc(CurFID, clock, 0), Nodes |-> D.Nodes])
  /\ UNCHANGED <<recVars, Macros, HadDef, lastMD, lastFC>>
  /\ UNCHANGED <<matchRes, applied, MainFileIncludes, SpelledTokens, notRec>>

\* The end of the translation unit in one of the three drivers:
\* Action::EndSourceFile, UnusedIncludesCheck::onEndOfTranslationUnit or
\* computeUnusedIncludes.  lib is the standard library of the build, az
\* clangd's AnalyzeStdlib, ub the outcome of the undefined behaviour, rec the
\* tool's -recover option.
EndSourceFile(drv, lib, az, ub, rec) ==
  /\ phase = "parse"
  /\ \E m \in {IF drv = "clangd" THEN findReferencedMacros(<<>>, <<>>, SpelledTokens)
                ELSE [Refs |-> MacroReferences, Cache |-> DefinedMacros]} :
     \E calls \in {walkUsed(lib, DefaultPolicy, TopLevelDecls, m.Refs, m.Cache)} :
     \E out \in {IF drv = "tool" THEN ToolEndSourceFile(calls)
                  ELSE IF drv = "tidy" THEN onEndOfTranslationUnit(calls)
                  ELSE computeUnusedIncludes(calls, az, ub)} :
       /\ Calls' = calls
       /\ phase' = IF out.Aborted THEN "aborted" ELSE "done"
       /\ Used' = IF out.Aborted THEN {} ELSE out.Used
       /\ Unused' = IF out.Aborted THEN {} ELSE out.Unused
       /\ Diags' = out.Diags
  /\ driver' = drv
  /\ AnalyzeStdlib' = az
  /\ Recover' = rec
  /\ policy' = DefaultPolicy
  /\ ev' = "EndSourceFile"
  /\ UNCHANGED <<recVars, Macros, HadDef, lastMD, lastFC, clock>>
  /\ UNCHANGED <<matchRes, applied, TopLevelDecls, MainFileIncludes, SpelledTokens>>
  /\ UNCHANGED <<rankVars, ordVars, Lookups>>

\* The top-level declarations the parser delivers.
RootPool ==
  {[Kind |-> "Function", ImplicitInstantiation |-> FALSE,
    Nodes |-> <<Node("DeclRefExpr", 1, FALSE, <<>>), Node("DeclRefExpr", 4, FALSE, ExpArg),
                Node("MemberExpr", 3, FALSE, <<>>)>>],
   [Kind |-> "Var", ImplicitInstantiation |-> FALSE,
    Nodes |-> <<Node("TagType", 2, FALSE, <<>>), Node("DeclRefExpr", 5, TRUE, <<>>),
                Node("DeclRefExpr", 1, FALSE, ExpBody), Node("DeclRefExpr", 0, FALSE, <<>>),
                Node("CXXConstructExpr", 1, FALSE, <<>>), Node("TagType", 3, FALSE, <<>>)>>],
   [Kind |-> "Function", ImplicitInstantiation |-> TRUE,
    Nodes |-> <<Node("DeclRefExpr", 1, FALSE, <<>>)>>],
   [Kind |-> "ObjCMethod", ImplicitInstantiation |-> FALSE,
    Nodes |-> <<Node("DeclRefExpr", 2, FALSE, <<>>)>>]}

\* The include directives of the translation unit: "a" and "b" in quotes,
\* <v> in angle brackets; "a" may fail to resolve or carry a keep pragma.
Directives ==
  {[Spelled |-> <<97>>, IsAngled |-> FALSE, File |-> 1, Keep |-> FALSE],
   [Spelled |-> <<97>>, IsAngled |-> FALSE, File |-> 1, Keep |-> TRUE],
   [Spelled |-> <<97>>, IsAngled |-> FALSE, File |-> 0, Keep |-> FALSE],
   [Spelled |-> <<98>>, IsAngled |-> FALSE, File |-> 2, Keep |-> FALSE],
   [Spelled |-> <<118>>, IsAngled |-> TRUE, File |-> 2, Keep |-> FALSE]}

Drivers == {"tool", "tidy", "clangd"}
Outcomes == {"abort", "true", "false"}

\* AnalyzeStdlib and the outcome of the undefined behaviour are clangd's,
\* -recover is the tool's.
Flags(drv) ==
  IF drv = "clangd" THEN [az : BOOLEAN, ub : Outcomes, rec : {TRUE}]
  ELSE IF drv = "tool" THEN [az : {FALSE}, ub : {"abort"}, rec : BOOLEAN]
  ELSE [az : {FALSE}, ub : {"abort"}, rec : {TRUE}]

\* A translation unit from the first file change to the end of the analysis.
Init == InitRec /\ IdleRank /\ IdleOrder

Next ==
  \/ phase = "parse" /\ \E fid \in {MainFID, HeaderFID(1)} : FileChanged(fid)
  \/ phase = "parse" /\ clock < MaxEvents /\ \E d \in Directives :
       InclusionDirective(d.Spelled, d.IsAngled, d.File, d.Keep)
  \/ phase = "parse" /\ clock < MaxEvents /\ MacroDefined(<<97>>, {}, <<>>)
  \/ phase = "parse" /\ clock < MaxEvents /\ MacroExpands(<<97>>)
  \/ clock < MaxEvents /\ \E D \in RootPool : HandleTopLevelDecl(D)
  \/ \E drv \in Drivers : \E lib \in StdLibs : \E f \in Flags(drv) :
       EndSourceFile(drv, lib, f.az, f.ub, f.rec)

-----------------------------------------------------------------------------
(* The library called with a policy of the caller's choice: an              *)
(* AnalysisContext constructed with any Policy, walkUsed on the recorded    *)
(* roots and macro references, and the visitor marking the includes that    *)
(* RecordedIncludes::match finds for the headers it is given.               *)

Policies == {Policy(o, m, c) : o \in BOOLEAN, m \in BOOLEAN, c \in BOOLEAN}

\* The visitor of a caller that diagnoses unused includes.
RECURSIVE MarkUsed(_, _)
MarkUsed(calls, k) ==
  IF k > Len(calls) THEN {}
  ELSE MatchesOf(calls[k].Headers, 1) \cup MarkUsed(calls, k + 1)

walkUsedWith(P, lib) ==
  /\ phase = "parse"
  /\ \E calls \in {walkUsed(lib, P, TopLevelDecls, MacroReferences, DefinedMacros)} :
     \E used \in {MarkUsed(calls, 1)} :
       /\ Calls' = calls
       /\ Used' = used
       /\ Unused' = Ordinals \ used
  /\ phase' = "done"
  /\ driver' = "client"
  /\ policy' = P
  /\ ev' = "EndSourceFile"
  /\ UNCHANGED <<AnalyzeStdlib, Diags, Recover>>
  /\ UNCHANGED <<recVars, Macros, HadDef, lastMD, lastFC, clock>>
  /\ UNCHANGED <<matchRes, applied, TopLevelDecls, MainFileIncludes, SpelledTokens>>
  /\ UNCHANGED <<rankVars, ordVars, Lookups>>

\* Top-level declarations that use the operator: spelled in the file next to
\* a type of the main file; in a macro argument next to a member and a
\* construction of class a; in a macro body; and one that only names class a.
OperatorRoots ==
  {[Kind |-> "Var", ImplicitInstantiation |-> FALSE,
    Nodes |-> <<Node("TagType", 3, FALSE, <<>>), Node("DeclRefExpr", 6, TRUE, <<>>)>>],
   [Kind |-> "Function", ImplicitInstantiation |-> FALSE,
    Nodes |-> <<Node("DeclRefExpr", 6, TRUE, ExpArg), Node("MemberExpr", 1, FALSE, <<>>),
                Node("CXXConstructExpr", 1, FALSE, <<>>)>>],
   [Kind |-> "Function", ImplicitInstantiation |-> FALSE,
    Nodes |-> <<Node("DeclRefExpr", 6, TRUE, ExpBody)>>],
   [Kind |-> "Var", ImplicitInstantiation |-> FALSE,
    Nodes |-> <<Node("DeclRefExpr", 1, FALSE, <<>>)>>]}

\* The directives of these translation units: "a" for file 1, "b" for file 2.
PolicyDirectives ==
  {[Spelled |-> <<97>>, IsAngled |-> FALSE, File |-> 1, Keep |-> FALSE],
   [Spelled |-> <<98>>, IsAngled |-> FALSE, File |-> 2, Keep |-> FALSE]}

NextPolicy ==
  \/ phase = "parse" /\ \E fid \in {MainFID, HeaderFID(2)} : FileChanged(fid)
  \/ phase = "parse" /\ clock < MaxEvents /\ \E d \in PolicyDirectives :
       InclusionDirective(d.Spelled, d.IsAngled, d.File, d.Keep)
  \/ clock < MaxEvents /\ \E D \in OperatorRoots : HandleTopLevelDecl(D)
  \/ \E P \in Policies : \E lib \in StdLibs : walkUsedWith(P, lib)

-----------------------------------------------------------------------------
(* The locator and the header resolver on their own: a caller applies them  *)
(* to one declaration or location after the other.                          *)

LocateDecl(ND) ==
  /\ applied' = [fn |-> "locateDecl", in |-> ND, out |-> locateDecl(ND)]
  /\ UNCHANGED <<recVars, ppVars, matchRes, TopLevelDecls, MainFileIncludes, SpelledTokens>>
  /\ UNCHANGED <<rankVars, ordVars, drvVars, Lookups>>

\* The locations the resolver is asked about: in the main file, the
\* predefines buffer, a header, a buffer without a file entry, a macro
\* expanded in the main file or in a header, and of the standard library.
LocationPool ==
  {PhysicalLocation(Loc(F, 0, 0)) :
     F \in {MainFID, PredefFID, [t |-> "buffer", f |-> 0]}
            \cup {HeaderFID(f) : f \in Files}
            \cup {[t |-> "expansion", f |-> f] : f \in {0} \cup Files}}
    \cup {StdLocation(s) : s \in StdIds}

IncludableHeader(L) ==
  /\ applied' = [fn |-> "includableHeader", in |-> L, out |-> includableHeader(L)]
  /\ UNCHANGED <<recVars, ppVars, matchRes, TopLevelDecls, MainFileIncludes, SpelledTokens>>
  /\ UNCHANGED <<rankVars, ordVars, drvVars, Lookups>>

\* The header lists of the references handed to the tool: up to two of the
\* main file, the predefines buffer, file 1 and a standard header.
ReferencePool ==
  LET Hs == {MainFileHeader, BuiltinHeader, PhysicalHeader(1), StdHeader(1)}
  IN  {<<>>} \cup {<<h>> : h \in Hs} \cup {p \in Hs \X Hs : p[1] # p[2]}

\* Action::diagnoseReference for one reference, on the includes recorded.
DiagnoseReference(Hs, Recovered) ==
  /\ applied' =
       [fn |-> "diagnoseReference",
        in |-> [Headers |-> Hs, Recovered |-> Recovered],
        out |-> diagnoseReference([Recovered |-> Recovered, Used |-> <<>>, Diags |-> <<>>],
                                  Call(Loc(MainFID, clock, 1), DeclSymbol(1), Hs))]
  /\ UNCHANGED <<recVars, ppVars, matchRes, TopLevelDecls, MainFileIncludes, SpelledTokens>>
  /\ UNCHANGED <<rankVars, ordVars, drvVars, Lookups>>

\* One call per run: the functions keep no state between calls.
NextLocate ==
  \/ applied.fn = "none" /\ \E ND \in DeclIds \cup GeneratedDecls : LocateDecl(ND)
  \/ applied.fn = "none" /\ \E L \in LocationPool : IncludableHeader(L)
  \/ applied.fn = "none" /\ FileChanged(MainFID)
  \/ applied.fn = "none" /\ clock < MaxEvents /\ \E d \in PolicyDirectives :
       InclusionDirective(d.Spelled, d.IsAngled, d.File, d.Keep)
  \/ applied.fn = "none" /\ \E Hs \in ReferencePool :
       \E Recovered \in {{}, {PhysicalHeader(1)}} : DiagnoseReference(Hs, Recovered)

-----------------------------------------------------------------------------
(* The walker on names spelled in macros and on constructor calls, under    *)
(* every policy.                                                            *)

\* Top-level declarations of the main file, with F(x) a macro that expands to
\* its argument and ID and G macros without parameters:
\*   a name in the file, in F(a), and in the body of ID;
\*   a name in F(ID), in G whose body is F(a), and a type in F(F(c));
\*   a constructor call without the type, a written type, and a constructor
\*   call in the body of ID;
\*   a constructor call with the type written, a(...).
WalkRoots ==
  {[Kind |-> "Function", ImplicitInstantiation |-> FALSE,
    Nodes |-> <<Node("DeclRefExpr", 1, FALSE, <<>>), Node("DeclRefExpr", 1, FALSE, ExpArg),
                Node("DeclRefExpr", 1, FALSE, ExpBody)>>],
   [Kind |-> "Function", ImplicitInstantiation |-> FALSE,
    Nodes |-> <<Node("DeclRefExpr", 1, FALSE, <<Exp("arg", TRUE), Exp("body", FALSE)>>),
                Node("DeclRefExpr", 1, FALSE, <<Exp("arg", FALSE), Exp("body", TRUE)>>),
                Node("TagType", 3, FALSE, <<Exp("arg", TRUE), Exp("arg", FALSE)>>)>>],
   [Kind |-> "Var", ImplicitInstantiation |-> FALSE,
    Nodes |-> <<Node("CXXConstructExpr", 1, FALSE, <<>>), Node("TagType", 3, FALSE, <<>>),
                Node("CXXConstructExpr", 1, FALSE, ExpBody)>>],
   [Kind |-> "Var", ImplicitInstantiation |-> FALSE,
    Nodes |-> <<Node("CXXTemporaryObjectExpr", 1, FALSE, <<>>)>>]}

NextWalk ==
  \/ phase = "parse" /\ \E fid \in {MainFID, HeaderFID(1)} : FileChanged(fid)
  \/ clock < MaxEvents /\ \E D \in WalkRoots : HandleTopLevelDecl(D)
  \/ \E P \in Policies : \E lib \in StdLibs : walkUsedWith(P, lib)

-----------------------------------------------------------------------------
(* Macro definitions with bodies, in a header and in the main file that     *)
(* includes it, analysed by the tool or the clang-tidy check.               *)

NextDefine ==
  \/ phase = "parse" /\ \E fid \in {MainFID, HeaderFID(1)} : FileChanged(fid)
  \/ phase = "parse" /\ clock < MaxEvents /\ \E f \in {1, 2} :
       InclusionDirective(<<97>>, FALSE, f, FALSE)
  \/ phase = "parse" /\ clock < MaxEvents /\ \E n \in MacroNames : \E b \in Bodies :
       MacroDefined(n, b.params, b.tokens)
  \/ phase = "parse" /\ clock < MaxEvents /\ \E n \in MacroNames : MacroUndefined(n)
  \/ \E drv \in {"tool", "tidy"} : \E lib \in StdLibs :
       EndSourceFile(drv, lib, FALSE, "abort", TRUE)

-----------------------------------------------------------------------------
(* The macro cache on its own: a caller looks macros up one after another.  *)

\* The definition locations the lookups ask for.
DefLocs == {Loc(MainFID, o, 0) : o \in {0, 1, 2, 3}}

\* AnalysisContext::macro, that is Cache::macro.
macro(Name, Def) ==
  /\ Len(Lookups) < MaxLookups
  /\ Lookups' = Append(Lookups, [Name |-> Name, Definition |-> Def,
                                  Sym |-> CacheSymbol(DefinedMacros, Name, Def)])
  /\ DefinedMacros' = CacheAfter(DefinedMacros, Name, Def)
  /\ UNCHANGED <<Active, incVars, MacroReferences, ppVars>>
  /\ UNCHANGED <<matchRes, applied, TopLevelDecls, MainFileIncludes, SpelledTokens>>
  /\ UNCHANGED <<rankVars, ordVars, drvVars>>

NextCache == \E Name \in MacroNames : \E Def \in DefLocs : macro(Name, Def)

-----------------------------------------------------------------------------
(* One macro name defined, undefined, redefined and expanded, in the main   *)
(* file and in a header.                                                    *)

NextRedef ==
  \/ \E fid \in {MainFID, HeaderFID(1)} : FileChanged(fid)
  \/ clock < MaxRedef /\ MacroDefined(<<97>>, {}, <<>>)
  \/ clock < MaxRedef /\ MacroUndefined(<<97>>)
  \/ clock < MaxRedef /\ MacroExpands(<<97>>)

-----------------------------------------------------------------------------
(* A macro reference read back after the cache has grown.                   *)

\* The values a DefinedMacro slot can hold.
DefinedMacroValues ==
  {[Name |-> n, Definition |-> d] : n \in MacroNames, d \in DefLocs}

\* *Ref.Target for the pointer Target = &DefinedMacros[N][I] taken when the
\* vector lived in buffer B: the slot while the vector still lives there, and
\* whatever the released buffer holds once the vector has moved.
Pointee(cache, Target) ==
  IF Target.B = BufferOf(Len(Lookup(cache, Target.N)))
  THEN {MacroOf(cache, Target)}
  ELSE DefinedMacroValues

\* walkUsed reading the target of the macro reference of ordinal k.
ReadTarget(k, M) ==
  /\ applied' = [fn |-> "readTarget", ref |-> k, out |-> M]
  /\ UNCHANGED <<recVars, ppVars, matchRes, TopLevelDecls, MainFileIncludes, SpelledTokens>>
  /\ UNCHANGED <<rankVars, ordVars, drvVars, Lookups>>

\* The definitions of Name the cache holds.
CachedDefinitions(cache, Name) ==
  {Lookup(cache, Name)[i].Definition : i \in DOMAIN Lookup(cache, Name)}

NextGrow ==
  \/ applied.fn = "none" /\ FileChanged(MainFID)
  \/ applied.fn = "none" /\ clock < MaxEvents /\ MacroDefined(<<97>>, {}, <<>>)
  \/ applied.fn = "none" /\ clock < MaxEvents /\ MacroExpands(<<97>>)
  \/ applied.fn = "none" /\
       \E Def \in DefLocs \ CachedDefinitions(DefinedMacros, <<97>>) : macro(<<97>>, Def)
  \/ applied.fn = "none" /\
       \E k \in DOMAIN MacroReferences :
         \E M \in Pointee(DefinedMacros, MacroReferences[k].Target) : ReadTarget(k, M)

-----------------------------------------------------------------------------
(* The library's table and clangd's list of the same directives: "a" and    *)
(* "v", each in quotes or in angle brackets, resolved or not; then queries. *)

\* Verbatim headers whose spelling carries its delimiters: <v> and "a".
DelimitedVerbatim ==
  {VerbatimHeader(<<ChLess, 118, ChGreater>>), VerbatimHeader(<<ChQuote, 97, ChQuote>>)}

NextAgree ==
  \/ ~matchRes.asked /\ \E fid \in {MainFID, HeaderFID(1)} : FileChanged(fid)
  \/ ~matchRes.asked /\ clock < MaxEvents /\
       \E sp \in {<<97>>, <<118>>} : \E angled \in BOOLEAN : \E f \in {0, 1} :
         InclusionDirective(sp, angled, f, FALSE)
  \/ \E H \in MatchPool \cup DelimitedVerbatim : MatchHeader(H)

-----------------------------------------------------------------------------
vars ==
  <<rankVars, ordVars, recVars, ppVars, matchRes, applied, TopLevelDecls, MainFileIncludes, SpelledTokens, drvVars,
    Lookups>>

InitRankSpec == InitRank /\ IdleOrder /\ InitRec
SpecRank == InitRankSpec /\ [][NextRank]_vars

InitOrderSpec == InitOrder /\ IdleRank /\ InitRec
SpecOrder == InitOrderSpec /\ [][NextOrder]_vars

InitIncSpec == InitRec /\ IdleRank /\ IdleOrder
SpecInc == InitIncSpec /\ [][NextInc]_vars

InitPPSpec == InitRec /\ IdleRank /\ IdleOrder
SpecPP == InitPPSpec /\ [][NextPP]_vars

Spec == Init /\ [][Next]_vars

InitPolicySpec == InitRec /\ IdleRank /\ IdleOrder
SpecPolicy == InitPolicySpec /\ [][NextPolicy]_vars

InitDefineSpec == InitRec /\ IdleRank /\ IdleOrder
SpecDefine == InitDefineSpec /\ [][NextDefine]_vars

InitWalkSpec == InitRec /\ IdleRank /\ IdleOrder
SpecWalk == InitWalkSpec /\ [][NextWalk]_vars

InitLocateSpec == InitRec /\ IdleRank /\ IdleOrder
SpecLocate == InitLocateSpec /\ [][NextLocate]_vars

InitGrowSpec == InitRec /\ IdleRank /\ IdleOrder
SpecGrow == InitGrowSpec /\ [][NextGrow]_vars

InitAgreeSpec == InitRec /\ IdleRank /\ IdleOrder
SpecAgree == InitAgreeSpec /\ [][NextAgree]_vars

InitCacheSpec == InitRec /\ IdleRank /\ IdleOrder
SpecCache == InitCacheSpec /\ [][NextCache]_vars

InitRedefSpec == InitRec /\ IdleRank /\ IdleOrder
SpecRedef == InitRedefSpec /\ [][NextRedef]_vars

-----------------------------------------------------------------------------
(* Properties of rank.                                                      *)

\* C2: the header list returned by rank contains no two headers that are
\* equal under operator==.
C2_RankNoDuplicates ==
  rpc = "ranked" =>
    \A i, j \in DOMAIN Result : i # j => ~HeaderEq(Result[i], Result[j])

\* The hints a header was meant to receive: NameMatch when it is a physical
\* file named like the identifier, Complete when one of its provider
\* locations is a definition.
WantsNameMatch(h) ==
  /\ h.K = Physical
  /\ II # <<>>
  /\ EqualsInsensitive(II, FileName(h.v))

WantsComplete(h) == \E i \in DOMAIN Locs : Locs[i].Value = h /\ Locs[i].Def

\* C3: in rank's result every header with NameMatch precedes every header
\* without it, and among headers that agree on NameMatch every header with
\* Complete precedes every header without; so a header with only NameMatch
\* comes before a header with only Complete.
C3_RankHintOrder ==
  rpc = "ranked" =>
    \A i, j \in DOMAIN Result :
      LET ni == WantsNameMatch(Result[i])
          nj == WantsNameMatch(Result[j])
          ci == WantsComplete(Result[i])
          cj == WantsComplete(Result[j])
      IN  (\/ ni /\ ~nj
           \/ ni = nj /\ ci /\ ~cj) => i < j

-----------------------------------------------------------------------------
(* Properties of the order on headers.                                      *)

\* C4: operator< is a strict total order consistent with operator==: it is
\* irreflexive and transitive, and exactly one of a < b, b < a, a == b holds.
C4_HeaderStrictTotalOrder ==
  cmp.done =>
    /\ ~cmp.aa
    /\ (cmp.ab /\ cmp.bc => cmp.ac)
    /\ (cmp.ab \/ cmp.ba \/ cmp.eq)
    /\ ~(cmp.ab /\ cmp.ba)
    /\ ~(cmp.ab /\ cmp.eq)
    /\ ~(cmp.ba /\ cmp.eq)

-----------------------------------------------------------------------------
(* Properties of the recorder.                                              *)

\* The places of an index (a map from keys to ordinal lists) that hold i.
PlacesOf(index, i) ==
  {<<k, n>> \in UNION {{k} \X DOMAIN index[k] : k \in DOMAIN index} :
     index[k][n] = i}

\* C5: the secondary indices agree with the include sequence: an ordinal
\* stored under BySpelling[s] is of an include spelled s, an ordinal stored
\* under ByFile[f] is of an include resolved to f (f = 0 for unresolved
\* includes), and every ordinal occurs exactly once in each index.
C5_IndicesAgree ==
  /\ \A s \in DOMAIN BySpelling : \A n \in DOMAIN BySpelling[s] :
       /\ BySpelling[s][n] \in Ordinals
       /\ At(All, BySpelling[s][n]).Spelled = s
  /\ \A f \in DOMAIN ByFile : \A n \in DOMAIN ByFile[f] :
       /\ ByFile[f][n] \in Ordinals
       /\ At(All, ByFile[f][n]).Resolved = f
  /\ \A i \in Ordinals :
       /\ Cardinality(PlacesOf(BySpelling, i)) = 1
       /\ Cardinality(PlacesOf(ByFile, i)) = 1

\* Two includes share a spelling, and an unresolved include is indexed.
C5_Witness ==
  /\ Len(All) >= 2
  /\ \E s \in DOMAIN BySpelling : Len(BySpelling[s]) >= 2
  /\ 0 \in DOMAIN ByFile

\* C6: all() lists the directives in the order their events arrived: an
\* inclusion directive delivered in the main file becomes the new last entry,
\* carrying the location of that event, and no step reorders, changes or
\* removes an earlier entry; so two directives with the same spelling or file
\* are two entries.
C6_IncludeOrder ==
  [][/\ Len(All') >= Len(All)
     /\ SubSeq(All', 1, Len(All)) = All
     /\ (clock' # clock /\ ev' = "InclusionDirective" /\ lastFC = MainFID) =>
          /\ Len(All') = Len(All) + 1
          /\ All'[Len(All')].Location = Loc(MainFID, clock, 0)
     /\ ~(clock' # clock /\ ev' = "InclusionDirective") => All' = All]_vars

\* The same directive arrived twice and is listed twice.
C6_Witness ==
  /\ Len(All) >= 2
  /\ All[1].Spelled = All[2].Spelled
  /\ All[1].Resolved = All[2].Resolved
  /\ All[1].Location # All[2].Location

Satisfies(H, I) ==
  IF H.K = Physical THEN I.Resolved = H.v
  ELSE IF H.K = StandardLibrary THEN I.Spelled = StdInner(H.v)
  ELSE IF H.K = Verbatim THEN I.Spelled = H.v
  ELSE FALSE

\* C8: match(H) returns exactly the recorded includes that satisfy H's variant
\* predicate, each once; nothing for Builtin and MainFile.
C8_MatchExact ==
  matchRes.asked =>
    /\ Range(matchRes.res) = {i \in Ordinals : Satisfies(matchRes.H, At(All, i))}
    /\ Cardinality(Range(matchRes.res)) = Len(matchRes.res)

\* A standard header matched two includes of its spelling, and not the third.
C8_Witness ==
  /\ matchRes.asked
  /\ matchRes.H.K = StandardLibrary
  /\ Len(matchRes.res) = 2
  /\ Len(All) = 3

\* The references walkUsed is given, as (location, symbol) pairs: what walkAST
\* reports below each root, root after root, then the macro references.
RECURSIVE DeclReferences(_, _)
DeclReferences(roots, k) ==
  IF k > Len(roots) THEN <<>>
  ELSE LET r == walkAST(DefaultPolicy, roots[k])
       IN  [j \in DOMAIN r |-> [Loc |-> r[j].Loc, Sym |-> DeclSymbol(r[j].ND.Value)]]
             \o DeclReferences(roots, k + 1)

MacroRefsGiven ==
  IF driver = "clangd" THEN findReferencedMacros(<<>>, <<>>, SpelledTokens).Refs
  ELSE MacroReferences

References ==
  DeclReferences(TopLevelDecls, 1)
    \o [j \in DOMAIN MacroRefsGiven |->
          [Loc |-> MacroRefsGiven[j].Location, Sym |-> MacroSymbol(MacroRefsGiven[j].Target)]]

\* C1: walkUsed invokes the visitor exactly once per reference: first the
\* declaration references the walker reports, root after root in the order
\* given and in traversal order below a root, then the macro references in
\* list order; a reference with an empty header list gets its call too.
C1_VisitorOncePerReference ==
  phase # "parse" =>
    /\ Len(Calls) = Len(References)
    /\ \A k \in DOMAIN Calls :
         /\ Calls[k].Loc = References[k].Loc
         /\ Calls[k].Sym = References[k].Sym

\* A declaration reference without headers and a macro reference were visited.
C1_Witness ==
  /\ phase = "done"
  /\ \E k \in DOMAIN Calls : Calls[k].Sym.Kind = "Declaration" /\ Calls[k].Headers = <<>>
  /\ \E k \in DOMAIN Calls : Calls[k].Sym.Kind = "Macro"
  /\ Len(Calls) >= 3

\* The includes the driver decides on, and the driver's match of a header
\* against the include of ordinal i.
DriverOrdinals == IF driver = "clangd" THEN ClangdOrdinals ELSE Ordinals

Matches(H, i) ==
  IF driver = "clangd" THEN clangdMatch(H, At(MainFileIncludes, i))
  ELSE Satisfies(H, At(All, i))

\* C9: after the driver has processed the visitor's calls, an include is in
\* Used iff it matches some header of the header list of some reference: every
\* header of every list counts, and every include matching it.
C9_UsedIffMatchesSomeHeader ==
  phase = "done" =>
    Used = {i \in DriverOrdinals :
              \E c \in DOMAIN Calls : \E k \in DOMAIN Calls[c].Headers :
                Matches(Calls[c].Headers[k], i)}

\* Two includes are used, one of them only through the second header of a list.
C9_Witness ==
  /\ phase = "done"
  /\ Cardinality(Used) >= 2
  /\ \E c \in DOMAIN Calls : \E i \in Used :
       /\ Len(Calls[c].Headers) >= 2
       /\ Matches(Calls[c].Headers[2], i)
       /\ ~Matches(Calls[c].Headers[1], i)

\* C10 as stated: the used and the unused includes partition the includes.
C10_UsedUnusedPartition ==
  phase = "done" =>
    /\ Used \cap Unused = {}
    /\ Used \cup Unused = DriverOrdinals

\* clangd never reports this include: kept by pragma, in angle brackets
\* without the analysis of the standard library or naming no standard header,
\* unresolved, or resolved to a file without include guard.
Excluded(Inc) ==
  \/ Inc.BehindPragmaKeep
  \/ Inc.Written[1] = ChLess /\ ~(AnalyzeStdlib /\ named(Inc.Written))
  \/ Inc.Written[1] # ChLess /\ Inc.HeaderID = 0
  \/ Inc.Written[1] # ChLess /\ Inc.HeaderID # 0 /\ ~isFileMultipleIncludeGuarded(Inc.HeaderID)

\* C10, amended: no include is both used and reported unused; in the tool and
\* the clang-tidy check every include is used or reported unused; in clangd
\* the includes neither used nor reported unused are excluded ones, and an
\* include that is neither used nor excluded is reported unused, but for the
\* unresolved quoted include, on which mayConsiderUnused is undefined.
C10_UnusedUpToExclusions ==
  phase = "done" =>
    /\ Used \cap Unused = {}
    /\ Used \cup Unused \subseteq DriverOrdinals
    /\ driver # "clangd" => Used \cup Unused = DriverOrdinals
    /\ driver = "clangd" =>
         \A i \in DriverOrdinals \ Used :
           /\ i \notin Unused => Excluded(At(MainFileIncludes, i))
           /\ i \in Unused =>
                \/ ~Excluded(At(MainFileIncludes, i))
                \/ HitsAssert(At(MainFileIncludes, i))

\* clangd reported one include unused and left another neither used nor unused.
C10_Witness ==
  /\ phase = "done"
  /\ driver = "clangd"
  /\ Unused # {}
  /\ Used \cup Unused # DriverOrdinals

-----------------------------------------------------------------------------
(* Properties of the macro cache.                                           *)

\* C11: two lookups with equal (name, definition location) return the same
\* symbol identity whatever was looked up in between, and two lookups of one
\* name with different definition locations return different identities.
C11_SymbolIdentity ==
  \A i, j \in DOMAIN Lookups :
    Lookups[i].Name = Lookups[j].Name =>
      (Lookups[i].Definition = Lookups[j].Definition <=> Lookups[i].Sym = Lookups[j].Sym)

\* The header list walkUsed computes for a macro defined at Def.
ProviderOf(Def) ==
  IF Def.F = MainFID THEN <<MainFileHeader>>
  ELSE IF Def.F = PredefFID THEN <<BuiltinHeader>>
  ELSE IF Def.F.t = "file" THEN <<PhysicalHeader(Def.F.f)>>
  ELSE <<>>

\* C12: a macro reference recorded by an expansion targets the symbol of the
\* definition that is live when the expansion arrives: its definition location
\* is that of the live definition, its symbol differs from the symbol of every
\* reference recorded for another definition, and the headers walkUsed finds
\* for it are those of the live definition's file.
C12_ReferenceTargetsLiveDefinition ==
  [][(ev' = "MacroExpands" /\ Len(MacroReferences') > Len(MacroReferences)) =>
       LET r == MacroReferences'[Len(MacroReferences')]
           M == MacroOf(DefinedMacros', r.Target)
           live == Macros[r.Target.N]
       IN  /\ Len(MacroReferences') = Len(MacroReferences) + 1
           /\ live.Live
           /\ M.Name = r.Target.N
           /\ M.Definition = live.Def
           /\ \A k \in DOMAIN MacroReferences :
                MacroOf(DefinedMacros, MacroReferences[k].Target).Definition # live.Def
                  => MacroReferences[k].Target # r.Target
           /\ MacroCallback("libcxx", DefinedMacros', r).Headers = ProviderOf(live.Def)
     ]_vars

\* A macro defined in the header was expanded, redefined in the main file and
\* expanded again: two references with different symbols and providers.
C12_Witness ==
  /\ ev = "MacroExpands"
  /\ Len(MacroReferences) = 2
  /\ MacroReferences[1].Target # MacroReferences[2].Target
  /\ MacroOf(DefinedMacros, MacroReferences[1].Target).Definition.F = HeaderFID(1)
  /\ MacroOf(DefinedMacros, MacroReferences[2].Target).Definition.F = MainFID
  /\ Macros[<<97>>].Def = MacroOf(DefinedMacros, MacroReferences[2].Target).Definition

-----------------------------------------------------------------------------
(* Further properties of rank.                                              *)

\* The candidates rank was given: one per provider location, with the hint
\* of the location and the name-match hint.
RankInput ==
  addNameMatchHint(II, [i \in DOMAIN Locs |->
                          Hinted(Locs[i].Value, IF Locs[i].Def THEN Complete ELSE None)])

\* C13: hints never change which headers are emitted: the set of headers in
\* rank's output is the set of the candidate headers, whatever their hints.
C13_HintsKeepMembership ==
  rpc = "ranked" =>
    Range(Result) = {RankInput[i].Value : i \in DOMAIN RankInput}

\* Three candidates, two of them the same header with different hints, gave
\* two headers.
C13_Witness ==
  /\ rpc = "ranked"
  /\ Len(Locs) = 3
  /\ Len(Result) = 2
  /\ \E i, j \in DOMAIN Locs : Locs[i].Value = Locs[j].Value /\ Locs[i].Def # Locs[j].Def

\* The place of the first occurrence of header h in the sequence s of headers.
FirstPlace(s, h) == CHOOSE i \in DOMAIN s : s[i] = h /\ \A j \in DOMAIN s : s[j] = h => i <= j

\* The combined hints of header h: the hints of its candidates, or-ed.
RECURSIVE CombinedFrom(_, _)
CombinedFrom(h, k) ==
  IF k > Len(RankInput) THEN None
  ELSE IF RankInput[k].Value = h THEN BitOr(RankInput[k].Hint, CombinedFrom(h, k + 1))
  ELSE CombinedFrom(h, k + 1)

\* C14 as stated: of two distinct candidate headers with equal combined
\* hints, the one inserted first comes first in rank's output.
C14_StableInsertionOrder ==
  rpc = "ranked" =>
    \A a, b \in Range(Result) :
      LET in == [i \in DOMAIN RankInput |-> RankInput[i].Value]
      IN  (/\ a # b
           /\ CombinedFrom(a, 1) = CombinedFrom(b, 1)
           /\ FirstPlace(in, a) < FirstPlace(in, b))
            => FirstPlace(Result, a) < FirstPlace(Result, b)

\* C14, amended: rank's output keeps, among the headers with equal hints,
\* the order of the list sorted by header and deduplicated, which is not the
\* order of insertion.
C14_StableAfterHeaderSort ==
  rpc = "ranked" =>
    LET sorted == StableSort(stl, "header", RankInput)
        uniq == UniqueMerge(sorted, Len(sorted))
    IN  \A k \in DOMAIN uniq :
          LET Same(x) == ~prefer(x.Hint, uniq[k].Hint) /\ ~prefer(uniq[k].Hint, x.Hint)
              kept == SelectSeq(uniq, Same)
              out == SelectSeq(Headers, Same)
          IN  /\ out = kept
              /\ Len(Result) = Len(uniq)

\* The main file was inserted ahead of a physical file with the same hints,
\* and comes after it in the output.
C14_Witness ==
  /\ rpc = "ranked"
  /\ Len(Locs) = 2
  /\ Locs[1].Value = MainFileHeader
  /\ Locs[2].Value.K = Physical
  /\ Headers[1].Hint = Headers[2].Hint
  /\ Result = <<Locs[2].Value, Locs[1].Value>>

-----------------------------------------------------------------------------
(* Properties of the exclusion rules.                                       *)

\* The directive behind the include of ordinal i of the driver's list, as
\* written: with its delimiters and its keep pragma.
DirectiveOf(i) ==
  IF driver = "clangd" THEN At(MainFileIncludes, i)
  ELSE CHOOSE d \in Range(MainFileIncludes) : d.HashLine = At(All, i).Location.O

\* C15: in every driver an angle-bracket include is reported unused only if
\* the analysis of the standard library is on and the include names a
\* standard header.
C15_AngledOnlyWithStdlibAnalysis ==
  phase = "done" =>
    \A i \in Unused :
      DirectiveOf(i).Written[1] = ChLess =>
        AnalyzeStdlib /\ named(DirectiveOf(i).Written)

\* C16: no driver reports unused an include that carries a keep pragma or
\* that resolves to a file without include guard.
C16_KeepAndUnguardedNeverUnused ==
  phase = "done" =>
    \A i \in Unused :
      /\ ~DirectiveOf(i).BehindPragmaKeep
      /\ DirectiveOf(i).HeaderID # 0 => isFileMultipleIncludeGuarded(DirectiveOf(i).HeaderID)

\* The diagnostics of the tool's references: those before the one per include.
RefDiags == SubSeq(Diags, 1, Len(Diags) - Len(All))

\* A reference that nothing satisfies: no header of its list is the main file
\* or a builtin, or is matched by an include.
Unsatisfied(C) ==
  \A k \in DOMAIN C.Headers :
    /\ C.Headers[k].K \notin {MainFile, Builtin}
    /\ \A i \in Ordinals : ~Satisfies(C.Headers[k], At(All, i))

\* The headers of the references before the k-th that were reported as
\* missing.
RECURSIVE RecoveredBefore(_, _)
RecoveredBefore(calls, k) ==
  IF k <= 1 THEN {}
  ELSE LET R == RecoveredBefore(calls, k - 1)
           C == calls[k - 1]
       IN  IF Unsatisfied(C) /\ Range(C.Headers) \cap R = {}
           THEN R \cup Range(C.Headers) ELSE R

\* What the k-th reference is to be answered with: location, ID, level and
\* argument of each diagnostic.
ExpectedBlock(calls, k) ==
  LET C == calls[k]
      Hs == C.Headers
  IN  IF Hs = <<>> THEN <<[Loc |-> C.Loc, ID |-> "NoHeader", Level |-> "Warning"]>>
      ELSE IF Unsatisfied(C) /\ Range(Hs) \cap RecoveredBefore(calls, k) = {}
      THEN <<[Loc |-> C.Loc, ID |-> "Unsatisfied", Level |-> "Error"]>>
           \o [j \in 1..Len(Hs) |->
                 [Loc |-> InvalidLoc, ID |-> "NoteHeader", Level |-> "Note"]]
      ELSE <<[Loc |-> C.Loc, ID |-> "Satisfied", Level |-> "Remark"]>>

RECURSIVE ExpectedFrom(_, _)
ExpectedFrom(calls, k) ==
  IF k > Len(calls) THEN <<>>
  ELSE ExpectedBlock(calls, k) \o ExpectedFrom(calls, k + 1)

RECURSIVE NotesFrom(_, _)
NotesFrom(calls, k) ==
  IF k > Len(calls) THEN <<>>
  ELSE (IF Unsatisfied(calls[k]) /\ Range(calls[k].Headers) \cap RecoveredBefore(calls, k) = {}
        THEN [j \in 1..Len(calls[k].Headers) |-> HeaderName(calls[k].Headers[j])]
        ELSE <<>>) \o NotesFrom(calls, k + 1)

\* C17: in the standalone tool a reference with an empty header list is
\* answered with the warning "unknown header provides" and no error; a
\* reference with a non-empty list of which no header is the main file, a
\* builtin, matched by an include or already recovered is answered with one
\* error "no header included" followed by one note "provided by" per header of
\* the list, in order; every other reference with one "provided by" remark; and
\* every reference is answered, in the order of the references.
C17_ToolReferenceDiagnostics ==
  (driver = "tool" /\ phase = "done") =>
    /\ [k \in DOMAIN RefDiags |->
          [Loc |-> RefDiags[k].Loc, ID |-> RefDiags[k].ID, Level |-> RefDiags[k].Level]]
         = ExpectedFrom(Calls, 1)
    /\ SelectSeq([k \in DOMAIN RefDiags |-> RefDiags[k]],
                 LAMBDA d : d.ID = "NoteHeader")
         = [k \in DOMAIN NotesFrom(Calls, 1) |->
              Report(InvalidLoc, "NoteHeader", NoSym, NotesFrom(Calls, 1)[k])]

\* The tool answered a reference with the error and two notes, went on to a
\* reference with no header, warned, and went on to a third.
C17_Witness ==
  /\ driver = "tool" /\ phase = "done"
  /\ \E k \in DOMAIN RefDiags :
       /\ k + 4 <= Len(RefDiags)
       /\ RefDiags[k].ID = "Unsatisfied" /\ RefDiags[k].Level = "Error"
       /\ RefDiags[k + 1].ID = "NoteHeader" /\ RefDiags[k + 2].ID = "NoteHeader"
       /\ RefDiags[k + 3].ID = "NoHeader" /\ RefDiags[k + 3].Level = "Warning"
       /\ RefDiags[k + 4].ID \in {"Satisfied", "Unsatisfied"}

\* The diagnostic that answers each reference: the ones reported at a
\* location, in order.
Heads == SelectSeq(RefDiags, LAMBDA d : d.ID # "NoteHeader")

\* C18: in recover mode at most one error "no header included" is issued per
\* missing header: once a reference was reported unsatisfied with a header H in
\* its list, no later reference whose list contains H and that no include
\* satisfies is answered with an error.
C18_OneErrorPerMissingHeader ==
  (driver = "tool" /\ phase = "done" /\ Recover) =>
    /\ Len(Heads) = Len(Calls)
    /\ \A k1, k2 \in DOMAIN Calls :
         (/\ k1 < k2
          /\ Heads[k1].ID = "Unsatisfied"
          /\ Range(Calls[k1].Headers) \cap Range(Calls[k2].Headers) # {}
          /\ Unsatisfied(Calls[k2]))
         => Heads[k2].Level # "Error"

\* Two references that no include satisfies share a header; the first was
\* answered with the error, the second was not.
C18_Witness ==
  /\ driver = "tool" /\ phase = "done" /\ Recover
  /\ Len(Heads) = Len(Calls)
  /\ \E k1, k2 \in DOMAIN Calls :
       /\ k1 < k2
       /\ Heads[k1].ID = "Unsatisfied"
       /\ Range(Calls[k1].Headers) \cap Range(Calls[k2].Headers) # {}
       /\ Unsatisfied(Calls[k2])
       /\ Heads[k2].ID = "Satisfied"

\* C19: the -recover option controls the suppression of repeated errors: with
\* the option on, a later reference to a header already reported is answered
\* without an error, and with the option off every reference with a non-empty
\* list that nothing satisfies is answered with its own error "no header
\* included".
C19_RecoverControlsSuppression ==
  (driver = "tool" /\ phase = "done" /\ Len(Heads) = Len(Calls)) =>
    \A k \in DOMAIN Calls :
      (Unsatisfied(Calls[k]) /\ Calls[k].Headers # <<>>) =>
        IF Recover
        THEN (Heads[k].ID = "Unsatisfied"
                <=> Range(Calls[k].Headers) \cap RecoveredBefore(Calls, k) = {})
        ELSE Heads[k].ID = "Unsatisfied"

\* The uses of an overloaded operator function in the roots recorded: the
\* DeclRefExpr nodes that name one and are not spelled in a macro body.
OperatorUses ==
  {u \in UNION {{[r |-> r, j |-> j] : j \in DOMAIN TopLevelDecls[r].Nodes} :
                  r \in DOMAIN TopLevelDecls} :
     LET E == TopLevelDecls[u.r].Nodes[u.j]
     IN  E.Kind = "DeclRefExpr" /\ E.Op /\ E.Decl # 0 /\ E.Macro # ExpBody}

UseLoc(u) == Loc(TopLevelDecls[u.r].Loc.F, TopLevelDecls[u.r].Loc.O, u.j)
UseDecl(u) == TopLevelDecls[u.r].Nodes[u.j].Decl

\* The include with ordinal i provides the declaration d.
Provides(i, d) ==
  \E k \in DOMAIN LocHeaders(locateDecl(d), 1) :
    Satisfies(LocHeaders(locateDecl(d), 1)[k].Value, At(All, i))

\* The include provides an operator that is used, and nothing else that any
\* node or macro reference of the main file names.
ProvidesOnlyOperators(i) ==
  /\ \E u \in OperatorUses : Provides(i, UseDecl(u))
  /\ \A r \in DOMAIN TopLevelDecls : \A j \in DOMAIN TopLevelDecls[r].Nodes :
       LET E == TopLevelDecls[r].Nodes[j]
       IN  (E.Decl # 0 /\ Provides(i, E.Decl)) => (E.Kind = "DeclRefExpr" /\ E.Op)
  /\ MacroReferences = <<>>

\* C20: with the Operators flag of the policy off, a use of an overloaded
\* operator function yields no reference, and an include of a header that
\* provides only that operator is not used and is unused; with the flag on the
\* use yields a reference to the operator at the location of its name and the
\* includes that provide the operator are used.
C20_OperatorsPolicy ==
  (driver = "client" /\ phase = "done") =>
    /\ \A u \in OperatorUses :
         IF policy.Operators
         THEN /\ \E k \in DOMAIN Calls :
                   Calls[k].Loc = UseLoc(u) /\ Calls[k].Sym = DeclSymbol(UseDecl(u))
              /\ \A i \in Ordinals : Provides(i, UseDecl(u)) => (i \in Used /\ i \notin Unused)
         ELSE \A k \in DOMAIN Calls : Calls[k].Loc # UseLoc(u)
    /\ ~policy.Operators =>
         \A i \in Ordinals : ProvidesOnlyOperators(i) => (i \notin Used /\ i \in Unused)

\* The same translation unit, an include of "b" and a use of the operator it
\* declares, analysed with the flag on: the include is used.
C20_Witness ==
  /\ driver = "client" /\ phase = "done" /\ policy.Operators
  /\ ~policy.Members /\ ~policy.Construction
  /\ \E i \in Ordinals : ProvidesOnlyOperators(i) /\ i \in Used

\* C21: an expansion of a macro in the main file appends exactly one
\* reference, at the token of the macro name and targeting the macro's current
\* definition, unless the macro is built in or predefined by the compiler
\* (defined in the predefines buffer); then MacroReferences is left unchanged.
C21_ExpansionRecordedUnlessBuiltinOrPredefined ==
  [][(ev' = "MacroExpands" /\ clock' # clock /\ lastFC = MainFID) =>
       LET Tok == SpelledTokens'[Len(SpelledTokens')]
       IN  IF Tok.MI.Builtin \/ Tok.MI.Def.F = PredefFID
           THEN MacroReferences' = MacroReferences
           ELSE /\ Len(MacroReferences') = Len(MacroReferences) + 1
                /\ SubSeq(MacroReferences', 1, Len(MacroReferences)) = MacroReferences
                /\ MacroReferences'[Len(MacroReferences')].Location = Tok.Loc
                /\ MacroOf(DefinedMacros', MacroReferences'[Len(MacroReferences')].Target)
                     = [Name |-> Tok.II, Definition |-> Tok.MI.Def]]_vars

\* The references a #define in the main file is to add: one per body token
\* that is an identifier, no parameter, and names a macro in the table macros.
RECURSIVE ExpectedBodyRefs(_, _, _)
ExpectedBodyRefs(md, macros, j) ==
  IF j > Len(md.tokens) THEN <<>>
  ELSE (IF md.tokens[j] # <<>> /\ md.tokens[j] \notin md.params
           /\ macros[md.tokens[j]].Live
        THEN <<[Location |-> Loc(MainFID, clock, j),
                Macro |-> [Name |-> md.tokens[j], Definition |-> macros[md.tokens[j]].Def]]>>
        ELSE <<>>) \o ExpectedBodyRefs(md, macros, j + 1)

\* The references appended by the step, each with the macro it denotes.
AppendedRefs ==
  [k \in 1..(Len(MacroReferences') - Len(MacroReferences)) |->
     [Location |-> MacroReferences'[Len(MacroReferences) + k].Location,
      Macro |-> MacroOf(DefinedMacros', MacroReferences'[Len(MacroReferences) + k].Target)]]

\* An include of the file a recorded macro reference's target is defined in
\* is marked used.
BodyMacroHeaderUsed ==
  (phase = "done" /\ driver \in {"tool", "tidy"}) =>
    \A k \in DOMAIN MacroReferences : \A i \in Ordinals :
      LET Def == MacroOf(DefinedMacros, MacroReferences[k].Target).Definition
      IN  (At(All, i).Resolved # 0 /\ Def.F = HeaderFID(At(All, i).Resolved)) => i \in Used

\* C22 as stated: a #define in the main file appends, in the order of the body
\* tokens, one reference for each identifier token that is no parameter of the
\* definition and names a macro defined at that time, targeting that
\* definition, and nothing for the other tokens; and a header whose macro is
\* named in such a body is marked used.
C22_BodyReferences ==
  /\ [][(ev' = "MacroDefined" /\ clock' # clock /\ lastFC = MainFID) =>
          /\ SubSeq(MacroReferences', 1, Len(MacroReferences)) = MacroReferences
          /\ AppendedRefs = ExpectedBodyRefs(lastMD', Macros', 1)]_vars
  /\ []BodyMacroHeaderUsed

\* C22 with the filter of recordMacroRef: body tokens that name a built-in
\* macro append nothing either.
C22_BodyReferencesNotBuiltin ==
  /\ [][(ev' = "MacroDefined" /\ clock' # clock /\ lastFC = MainFID) =>
          /\ SubSeq(MacroReferences', 1, Len(MacroReferences)) = MacroReferences
          /\ AppendedRefs =
               SelectSeq(ExpectedBodyRefs(lastMD', Macros', 1),
                         LAMBDA r : ~Macros'[r.Macro.Name].Builtin)]_vars
  /\ []BodyMacroHeaderUsed

\* A macro defined in the included header is named in the body of a #define
\* of the main file and nowhere else; the include is used.
C22_Witness ==
  /\ phase = "done" /\ driver = "tidy"
  /\ Len(MacroReferences) = 1
  /\ MacroReferences[1].Location.T = 1
  /\ MacroOf(DefinedMacros, MacroReferences[1].Target).Definition.F = HeaderFID(1)
  /\ \E i \in Ordinals : At(All, i).Resolved = 1 /\ i \in Used

\* The nodes of the recorded roots, as (root, node) pairs.
NodesOfRoots ==
  UNION {{[r |-> r, j |-> j] : j \in DOMAIN TopLevelDecls[r].Nodes} :
           r \in DOMAIN TopLevelDecls}

NodeAt(u) == TopLevelDecls[u.r].Nodes[u.j]

\* The names and written types whose raw location lies in a macro expansion;
\* every policy has the walker visit them.
MacroSpelled ==
  {u \in NodesOfRoots :
     /\ NodeAt(u).Kind \in {"DeclRefExpr", "TagType"}
     /\ ~NodeAt(u).Op /\ NodeAt(u).Decl # 0
     /\ NodeAt(u).Macro # <<>>}

\* The visitor was called at the file location of the node, its offset kept.
ReportedInFile(u) ==
  \E k \in DOMAIN Calls :
    /\ Calls[k].Loc = Loc(TopLevelDecls[u.r].Loc.F, TopLevelDecls[u.r].Loc.O, u.j)
    /\ Calls[k].Sym = DeclSymbol(NodeAt(u).Decl)

NoMacroLocationReported ==
  \A k \in DOMAIN Calls : Calls[k].Loc.F # ExpansionFID

\* C23 as stated: a reference whose raw location is inside a macro expansion
\* is reported if and only if the outermost expansion that contains it is a
\* macro-argument expansion, and then at the spelling location in the file;
\* every location handed to the callback is a file location.
C23_ReportedIffOutermostIsArgument ==
  (driver = "client" /\ phase = "done") =>
    /\ \A u \in MacroSpelled :
         ReportedInFile(u) <=>
           \E k \in DOMAIN NodeAt(u).Macro :
             NodeAt(u).Macro[k].Outer /\ NodeAt(u).Macro[k].K = "arg"
    /\ NoMacroLocationReported

\* C23 with the loop of report: the reference is reported if and only if every
\* expansion from the raw location along the spelling locations is a
\* macro-argument expansion.
C23_ReportedIffAllArguments ==
  (driver = "client" /\ phase = "done") =>
    /\ \A u \in MacroSpelled :
         ReportedInFile(u) <=>
           \A k \in DOMAIN NodeAt(u).Macro : NodeAt(u).Macro[k].K = "arg"
    /\ NoMacroLocationReported

\* A type spelled in an argument of an argument was reported, a name from the
\* body of a macro expanded in an argument was not.
C23_Witness ==
  /\ driver = "client" /\ phase = "done"
  /\ \E u \in MacroSpelled :
       /\ Len(NodeAt(u).Macro) = 2 /\ ReportedInFile(u)
  /\ \E u \in MacroSpelled :
       /\ Len(NodeAt(u).Macro) = 2 /\ NodeAt(u).Macro[1] = Exp("arg", TRUE)
       /\ ~ReportedInFile(u)

\* The constructor calls of the recorded roots that are spelled in the file.
ConstructorCalls ==
  {u \in NodesOfRoots :
     /\ NodeAt(u).Kind \in {"CXXConstructExpr", "CXXTemporaryObjectExpr"}
     /\ NodeAt(u).Decl # 0 /\ NodeAt(u).Macro = <<>>}

\* How many times the visitor was called for the type at the call's location.
ReferencesAt(u) ==
  Cardinality({k \in DOMAIN Calls :
                 /\ Calls[k].Loc = Loc(TopLevelDecls[u.r].Loc.F, TopLevelDecls[u.r].Loc.O, u.j)
                 /\ Calls[k].Sym = DeclSymbol(NodeAt(u).Decl)})

\* C24: with Construction on a constructor call is a reference to its type,
\* at the location of the call, only when the type is not written at the call
\* (a call with the type written has the one reference of the written type and
\* none of its own); with Construction off the construct expression yields no
\* reference; and the walker's saved type location after the visit of the
\* expression is what it was before.
C24_ConstructionOnlyWhenTypeNotWritten ==
  (driver = "client" /\ phase = "done") =>
    \A u \in ConstructorCalls :
      /\ ReferencesAt(u) =
           IF NodeAt(u).Kind = "CXXTemporaryObjectExpr" THEN 1
           ELSE IF policy.Construction THEN 1 ELSE 0
      /\ \A l \in 0..Len(TopLevelDecls[u.r].Nodes) :
           TraverseNode(policy, TopLevelDecls[u.r], u.j, l).LocationOfType = l

\* The redeclarations locateDecl is to answer with: those with a valid
\* location that are no friend declaration of an entity declared before.
KeptRedecls(ND) ==
  SelectSeq(redecls(ND),
            LAMBDA RD : RD.Loc # InvalidLoc /\ RD.Friend # "FOK_Declared")

\* C25: locateDecl returns the one location StandardLibrary(symbol) when the
\* recognizer of the standard library knows the declaration; otherwise, in the
\* order of the redeclarations, one Physical location for each redeclaration
\* that has a valid location and is not merely a friend declaration, with the
\* hint Complete exactly on the definitions of tags, class templates and
\* function templates.
C25_LocateDecl ==
  applied.fn = "locateDecl" =>
    IF StdlibRecognizer(applied.in) # <<>>
    THEN applied.out = <<[Value |-> StdLocation(StdlibRecognizer(applied.in)[1]),
                          Hint |-> None]>>
    ELSE /\ Len(applied.out) = Len(KeptRedecls(applied.in))
         /\ \A k \in DOMAIN applied.out :
              /\ applied.out[k].Value.K = Physical
              /\ applied.out[k].Value.Src = KeptRedecls(applied.in)[k].Loc
              /\ applied.out[k].Hint = Complete <=>
                   /\ KeptRedecls(applied.in)[k].Definition
                   /\ KeptRedecls(applied.in)[k].Kind
                        \in {"Tag", "ClassTemplate", "FunctionTemplate"}
              /\ applied.out[k].Hint \in {None, Complete}

\* A class forward-declared, then defined, then named in a friend
\* declaration: two locations in that order, Complete on the second only.
C25_Witness ==
  /\ applied.fn = "locateDecl"
  /\ StdlibRecognizer(applied.in) = <<>>
  /\ Len(redecls(applied.in)) = 3
  /\ redecls(applied.in)[2].Kind = "Tag" /\ redecls(applied.in)[2].Definition
  /\ redecls(applied.in)[3].Friend = "FOK_Declared"
  /\ redecls(applied.in)[3].Loc # InvalidLoc
  /\ Len(applied.out) = 2
  /\ applied.out[1].Hint = None /\ applied.out[2].Hint = Complete

\* The headers includableHeader is to answer with, from the file the
\* location expands in.
ExpectedHeaders(L) ==
  IF L.K = StandardLibrary THEN <<StdHeader(L.Sym)>>
  ELSE LET F == L.Src.F
           In == IF F.t = "expansion"
                 THEN (IF F.f = 0 THEN MainFID ELSE HeaderFID(F.f))
                 ELSE F
       IN  IF In = MainFID THEN <<MainFileHeader>>
           ELSE IF In = PredefFID THEN <<BuiltinHeader>>
           ELSE IF In.t = "file" THEN <<PhysicalHeader(In.f)>>
           ELSE <<>>

\* C26: includableHeader maps a Physical location, at its expansion location,
\* to [MainFile] in the main file, [Builtin] in the predefines buffer,
\* [Physical(file)] in a file with a file entry and [] otherwise, and a
\* StandardLibrary location to its one standard header; and a reference whose
\* headers are all MainFile or Builtin marks no include used and is not
\* reported unsatisfied.
C26_IncludableHeader ==
  /\ applied.fn = "includableHeader" =>
       applied.out = [k \in DOMAIN ExpectedHeaders(applied.in) |->
                        [Value |-> ExpectedHeaders(applied.in)[k], Hint |-> None]]
  /\ (/\ applied.fn = "diagnoseReference"
      /\ applied.in.Headers # <<>>
      /\ \A k \in DOMAIN applied.in.Headers :
           applied.in.Headers[k].K \in {MainFile, Builtin}) =>
       /\ DOMAIN applied.out.Used = {}
       /\ \A k \in DOMAIN applied.out.Diags :
            applied.out.Diags[k].ID \notin {"Unsatisfied", "NoHeader"}

\* A location in a macro expanded in a header resolved to that header.
C26_Witness ==
  /\ applied.fn = "includableHeader"
  /\ applied.in.K = Physical /\ applied.in.Src.F.t = "expansion"
  /\ applied.out = <<[Value |-> PhysicalHeader(1), Hint |-> None]>>

-----------------------------------------------------------------------------
(* Properties of the name-match hint.                                       *)

\* The place of the last occurrence of character c in s, 0 when there is none.
LastIndexOf(s, c) ==
  IF \E i \in DOMAIN s : s[i] = c
  THEN CHOOSE i \in DOMAIN s : s[i] = c /\ \A j \in DOMAIN s : s[j] = c => j <= i
  ELSE 0

\* The stem of a file name: the name without its directory and its extension.
BaseName(s) == SubSeq(s, LastIndexOf(s, 47) + 1, Len(s))
Stem(s) ==
  LET base == BaseName(s)
      dot == LastIndexOf(base, 46)
  IN  IF dot = 0 THEN base ELSE SubSeq(base, 1, dot - 1)

\* The candidate h is a physical file whose stem is the referenced identifier.
StemMatches(h) ==
  /\ h.K = Physical
  /\ II # <<>>
  /\ EqualsInsensitive(II, Stem(FileName(h.v)))

\* The provider locations name pairwise different headers.
DistinctCandidates ==
  \A i, j \in DOMAIN Locs : Locs[i].Value = Locs[j].Value => i = j

\* C27: after ranking the candidates of a reference, a candidate carries
\* NameMatch exactly when it is a physical file whose name stem equals the
\* referenced identifier case-insensitively (next to the Complete hint of its
\* location); a non-physical candidate and a reference without identifier get
\* none; and a file that matches and holds the definition is the first header
\* when no other candidate matches or is complete.
C27_NameMatchOnStem ==
  (rpc = "ranked" /\ DistinctCandidates) =>
    /\ \A i \in DOMAIN Headers :
         LET h == Headers[i].Value IN
         Headers[i].Hint =
           BitOr(IF WantsComplete(h) THEN Complete ELSE None,
                 IF StemMatches(h) THEN NameMatch ELSE None)
    /\ \A i \in DOMAIN Locs :
         (/\ StemMatches(Locs[i].Value)
          /\ Locs[i].Def
          /\ \A j \in DOMAIN Locs \ {i} :
               ~StemMatches(Locs[j].Value) /\ ~Locs[j].Def)
         => Result[1] = Locs[i].Value

\* C27 with the comparison the code makes: the identifier against the whole
\* file name.
C27_NameMatchOnFullName ==
  (rpc = "ranked" /\ DistinctCandidates) =>
    \A i \in DOMAIN Headers :
      LET h == Headers[i].Value IN
      Headers[i].Hint =
        BitOr(IF WantsComplete(h) THEN Complete ELSE None,
              IF WantsNameMatch(h) THEN NameMatch ELSE None)

-----------------------------------------------------------------------------
(* Properties of stored macro references.                                   *)

\* The (name, definition location) pair the reference of ordinal k was
\* recorded with: those of the expansion at the reference's location.
RecordedPair(k) ==
  LET tok == CHOOSE t \in {SpelledTokens[i] : i \in DOMAIN SpelledTokens} :
               t.Loc = MacroReferences[k].Location
  IN  [Name |-> tok.II, Definition |-> tok.MI.Def]

C28_ValidWhileInline ==
  (/\ applied.fn = "readTarget"
   /\ Len(Lookup(DefinedMacros, MacroReferences[applied.ref].Target.N)) <= InlineElements)
  => applied.out = RecordedPair(applied.ref)

-----------------------------------------------------------------------------
(* Properties of the clang-tidy check's visitor.                            *)

\* C29: in the clang-tidy check, skipping the headers already in Seen changes
\* nothing: the Used set is the one found by matching every header of every
\* callback, and the includes reported unused are the others.
C29_SeenShortcutKeepsUsed ==
  (driver = "tidy" /\ phase = "done") =>
    /\ Used = MarkUsed(Calls, 1)
    /\ Unused = Ordinals \ MarkUsed(Calls, 1)

\* The check ran on two callbacks that name the same header, which matches
\* an include: the second callback skips it.
C29_Witness ==
  /\ driver = "tidy"
  /\ phase = "done"
  /\ Used # {}
  /\ \E i, j \in DOMAIN Calls :
       /\ i < j
       /\ \E m \in DOMAIN Calls[i].Headers : \E n \in DOMAIN Calls[j].Headers :
            /\ Calls[i].Headers[m] = Calls[j].Headers[n]
            /\ match(Calls[j].Headers[n]) # <<>>

-----------------------------------------------------------------------------
(* Properties of the two matchers.                                          *)

\* The library's match(H) contains the directive of ordinal i exactly when
\* clangd's match(H, directive) is true.
MatchersAgreeOn(i) ==
  (i \in Range(matchRes.res)) <=> clangdMatch(matchRes.H, MainFileIncludes[i + 1])

\* C30: for every header and every include directive of the main file,
\* quoted or angled, resolved or not, RecordedIncludes::match(H) contains the
\* directive exactly when clangd's match(H, directive) returns true.
C30_MatchersAgree ==
  matchRes.asked =>
    /\ Len(MainFileIncludes) = Len(All)
    /\ \A i \in Ordinals : MatchersAgreeOn(i)

\* C30 for the headers and directives other than a StandardLibrary header
\* against a quoted include and a Physical header without file.
C30_MatchersAgreeElsewhere ==
  matchRes.asked =>
    /\ Len(MainFileIncludes) = Len(All)
    /\ \A i \in Ordinals :
         (/\ ~(matchRes.H.K = StandardLibrary /\ MainFileIncludes[i + 1].Written[1] = ChQuote)
          /\ matchRes.H # PhysicalHeader(0))
         => MatchersAgreeOn(i)

====
